---- MODULE Spec2Model ----
(***************************************************************************)
(* Model of the iot-manager core: the BaseDevice contract and its vendor   *)
(* subclasses (devices/base.py, wiz.py, tapo_light.py, tuya_light.py,      *)
(* tuya.py, chromecast.py, app.py's DiscoveredDeviceAdapter) and the       *)
(* DeviceRegistry (devices/registry.py), the EventBus (core/events.py) and  *)
(* the AsyncBridge (utils/async_helpers.py).                               *)
(*                                                                         *)
(* SpecDev follows one device object through calls of its methods.         *)
(* SpecReg follows one DeviceRegistry through calls of its methods.        *)
(* SpecBus follows one EventBus through subscribe, unsubscribe, publish.   *)
(* SpecBridge follows one AsyncBridge, its worker threads and the UI queue.*)
(* SpecNotify follows a device with state-changed callbacks registered.    *)
(* SpecReentry follows a DeviceRegistry whose callbacks call back into it.  *)
(* SpecCallbacks is SpecBridge with completion callbacks that may raise.    *)
(* SpecVolume follows a Chromecast's set_volume calls and debounce timers.  *)
(* SpecApp follows IoTManagerApp's discovery handlers (app.py), run by the *)
(* discovery threads, the registry they write and the UI's after queue.    *)
(* SpecDiscovery follows one DiscoveryService (discovery/service.py).      *)
(* SpecLifecycle follows start() and stop() of the managers and service.   *)
(* SpecCleanup follows IoTManagerApp._cleanup over the bridge.             *)
(* SpecBridgeFair is the bridge used through run_async, scheduled fairly.  *)
(***************************************************************************)
EXTENDS Integers, Sequences, FiniteSets, TLC

VARIABLES
    dev,            \* the device object: class, vendor handle, DeviceState, ...
    last,           \* the last method call on dev: op, args, result, state before
    _devices,       \* DeviceRegistry._devices: insertion-ordered dict id -> device
    _on_device_added,    \* DeviceRegistry._on_device_added (list of callbacks)
    _on_device_removed,  \* DeviceRegistry._on_device_removed
    _on_device_updated,  \* DeviceRegistry._on_device_updated
    rlast,          \* the last registry call: op, args, result, callbacks fired
    _subscribers,   \* EventBus._subscribers: dict event type -> list of callbacks
    blast,          \* the last bus call: op, args, callbacks invoked, state before
    _loop,          \* AsyncBridge._loop: None or the event loop (numbered by start)
    _thread,        \* AsyncBridge._thread: None or the worker thread of that loop
    _running,       \* AsyncBridge._running
    workers,        \* per loop created, where its worker thread is in _run_loop
    ops,            \* the coroutines handed to run_async / run_async_with_gui_callback
    pc,             \* where the client thread is inside a bridge method
    gui_queue,      \* what was handed to gui_schedule and not yet run by the UI
    klast,          \* the last start()/stop() call and the bridge before it
    app,            \* IoTManagerApp: discovery bookkeeping, handler threads, UI queue
    vol,            \* the Chromecast's debounce timers, levels requested and sent
    svc             \* the DiscoveryService, the device managers and the cleanup

devVars == <<dev, last>>
regVars == <<_devices, _on_device_added, _on_device_removed, _on_device_updated, rlast>>
busVars == <<_subscribers, blast>>
bridgeVars == <<_loop, _thread, _running, workers, ops, pc, gui_queue, klast>>
appVars == <<app, vol, svc>>
vars == <<dev, last, _devices, _on_device_added, _on_device_removed,
          _on_device_updated, rlast, _subscribers, blast,
          _loop, _thread, _running, workers, ops, pc, gui_queue, klast, app, vol, svc>>

----------------------------------------------------------------------------
(* Bounds of the model *)

\* how far outside the documented 0..100 range the level arguments are drawn
MaxOver == 1
\* number of callbacks subscribed to one event type
MaxSubs == 2
\* number of coroutines handed to the bridge
MaxOps == 1
\* number of event loops the bridge creates (calls of start() that start one)
MaxLoops == MaxOps + 1
\* total number of callbacks registered on the registry (all three lists)
MaxCallbacks == 2
\* number of distinct device ids handed to the registry
MaxIds == 2

----------------------------------------------------------------------------
(* Python values *)

\* Optional[T]: None is the empty tuple, a value v is <<v>>
None == <<>>
Some(v) == <<v>>

Min(a, b) == IF a <= b THEN a ELSE b
Max(a, b) == IF a >= b THEN a ELSE b
\* max(lo, min(hi, x))
Clamp(lo, hi, x) == Max(lo, Min(hi, x))
\* int(n / d) for integers n and d > 0: Python's int() truncates toward zero
TruncDiv(n, d) == IF n >= 0 THEN n \div d ELSE 0 - ((0 - n) \div d)

\* the observer callbacks a caller can register; cb_raise raises an Exception
\* whenever it is called, cb_ok returns
Callbacks == {"cb_ok", "cb_raise"}
Raises(cb) == cb = "cb_raise"

----------------------------------------------------------------------------
(* devices/base.py: DeviceCapability, DeviceState, BaseDevice *)

DeviceCapability ==
    {"ON_OFF", "BRIGHTNESS", "COLOR_TEMP", "RGB_COLOR", "TEMPERATURE_SENSOR",
     "HUMIDITY_SENSOR", "POWER_MONITORING", "VOLUME", "PLAYBACK", "SEEK"}

\* DeviceState(): the dataclass defaults
DeviceState ==
    [is_online |-> FALSE, is_on |-> None, brightness |-> None, color_temp |-> None,
     rgb |-> None, volume |-> None, playback_state |-> "UNKNOWN"]

\* BaseDevice.__init__: a device object with a fresh DeviceState. The fields the
\* subclasses add (vendor handle, _supports_color, the Tuya/adapter type string,
\* the Chromecast debounce timer, the state-changed callback slot of the vendor
\* classes) are part of the same record.
BaseDevice(cls, type_str, handle) ==
    [cls |-> cls, type_str |-> type_str, handle |-> handle, _supports_color |-> FALSE,
     _state |-> DeviceState, _pending_volume |-> None, _volume_debounce_timer |-> FALSE,
     _on_state_changed |-> None]

\* the result of a call: the device after it, what it returned or raised, how many
\* calls reached the vendor transport and how many of them ended in a transport or
\* vendor-SDK error, the state-changed callbacks it invoked (each with the device
\* itself), how many vendor sessions it created, and the power operations it awaited
Ret(d, ret, calls) ==
    [dev |-> d, ret |-> ret, calls |-> calls, errors |-> 0, notified |-> <<>>,
     opened |-> 0, attempted |-> <<>>]

\* the result of a call whose one vendor call ended in an error
Err(d, ret) == [Ret(d, ret, 1) EXCEPT !.errors = 1]

\* a notification that calls the registered callback twice
Notify_Twice(d, ok, failed, calls) ==
    IF d._on_state_changed = None THEN Ret(d, ok, calls)
    ELSE [Ret(d, IF Raises(d._on_state_changed[1]) THEN failed ELSE ok, calls)
             EXCEPT !.notified = <<d._on_state_changed[1], d._on_state_changed[1]>>]

\* "if self._on_state_changed: self._on_state_changed(self)" at the end of a call
\* that returns ok when the callback returns and failed when it raises
Notify(d, ok, failed, calls) ==
    IF d._on_state_changed = None THEN Ret(d, ok, calls)
    ELSE [Ret(d, IF Raises(d._on_state_changed[1]) THEN failed ELSE ok, calls)
             EXCEPT !.notified = <<d._on_state_changed[1]>>]

SetState(d, field, v) == [d EXCEPT !._state = [@ EXCEPT ![field] = v]]

WizDevice_capabilities(d) == {"ON_OFF", "BRIGHTNESS", "RGB_COLOR"}

TapoDevice_capabilities(d) ==
    {"ON_OFF", "BRIGHTNESS"} \cup (IF d._supports_color THEN {"RGB_COLOR"} ELSE {})

TuyaLightDevice_capabilities(d) == {"ON_OFF", "BRIGHTNESS", "RGB_COLOR"}

TuyaDevice_capabilities(d) ==
    {"ON_OFF"} \cup (IF d.type_str = "light"
                     THEN {"BRIGHTNESS", "COLOR_TEMP", "RGB_COLOR"} ELSE {})

ChromecastDevice_capabilities(d) == {"ON_OFF", "VOLUME", "PLAYBACK"}

\* DiscoveredDeviceAdapter.device_type: type_map.get(result.device_type, UNKNOWN)
DiscoveredDeviceAdapter_device_type(d) ==
    CASE d.type_str \in {"hue_bridge", "tradfri_gateway", "tuya"} -> "LIGHT"
      [] d.type_str \in {"chromecast", "airplay"} -> "SPEAKER"
      [] d.type_str = "esphome" -> "SWITCH"
      [] OTHER -> "UNKNOWN"

DiscoveredDeviceAdapter_capabilities(d) ==
    {"ON_OFF"} \cup (IF DiscoveredDeviceAdapter_device_type(d) = "SPEAKER" THEN {"VOLUME"}
                     ELSE IF DiscoveredDeviceAdapter_device_type(d) = "LIGHT"
                          THEN {"BRIGHTNESS"} ELSE {})

\* the capabilities property, dispatched on the object's class
capabilities(d) ==
    CASE d.cls = "WizDevice" -> WizDevice_capabilities(d)
      [] d.cls = "TapoDevice" -> TapoDevice_capabilities(d)
      [] d.cls = "TuyaLightDevice" -> TuyaLightDevice_capabilities(d)
      [] d.cls = "TuyaDevice" -> TuyaDevice_capabilities(d)
      [] d.cls = "ChromecastDevice" -> ChromecastDevice_capabilities(d)
      [] OTHER -> DiscoveredDeviceAdapter_capabilities(d)

has_capability(d, capability) == capability \in capabilities(d)

\* BaseDevice.turn_on; BaseDevice.turn_off has the same body
BaseDevice_turn_on(d) ==
    IF ~has_capability(d, "ON_OFF") THEN Ret(d, "NotImplementedError", 0)
    ELSE Ret(d, "False", 0)

BaseDevice_set_brightness(d, level) ==
    IF ~has_capability(d, "BRIGHTNESS") THEN Ret(d, "NotImplementedError", 0)
    ELSE IF ~(0 <= level /\ level <= 100) THEN Ret(d, "ValueError", 0)
    ELSE Ret(d, "False", 0)

BaseDevice_set_color_temp(d, kelvin) ==
    IF ~has_capability(d, "COLOR_TEMP") THEN Ret(d, "NotImplementedError", 0)
    ELSE Ret(d, "False", 0)

BaseDevice_set_rgb(d, rgb) ==
    IF ~has_capability(d, "RGB_COLOR") THEN Ret(d, "NotImplementedError", 0)
    ELSE IF ~(\A i \in 1..3 : 0 <= rgb[i] /\ rgb[i] <= 255) THEN Ret(d, "ValueError", 0)
    ELSE Ret(d, "False", 0)

BaseDevice_set_volume(d, level) ==
    IF ~has_capability(d, "VOLUME") THEN Ret(d, "NotImplementedError", 0)
    ELSE IF ~(0 <= level /\ level <= 100) THEN Ret(d, "ValueError", 0)
    ELSE Ret(d, "False", 0)

\* BaseDevice.play, pause and stop have the same body
BaseDevice_play(d) ==
    IF ~has_capability(d, "PLAYBACK") THEN Ret(d, "NotImplementedError", 0)
    ELSE Ret(d, "False", 0)

\* BaseDevice.seek and seek_relative have the same body
BaseDevice_seek(d, position) ==
    IF ~has_capability(d, "SEEK") THEN Ret(d, "NotImplementedError", 0)
    ELSE Ret(d, "False", 0)

----------------------------------------------------------------------------
(* devices/wiz.py: WizDevice.  d.handle is "self._bulb is set".  A vendor   *)
(* call either returns (tx = "ok") or raises (tx = "raise").                *)

\* what bulb.updateState() can do: raise, return a falsy state, or a pilot state
WizReplies ==
    [tx : {"ok"}, get_state : BOOLEAN,
     get_brightness : {None, Some(132)},
     get_colortemp : {None, Some(2700)}, get_rgb : {None, Some(<<255, 0, 0>>)}]
    \cup [tx : {"raise", "falsy"}, get_state : {FALSE}, get_brightness : {None},
          get_colortemp : {None}, get_rgb : {None}]

\* int((brightness - 10) / 245 * 100) clamped to 0..100
WizBrightnessToPercent(brightness) ==
    Clamp(0, 100, TruncDiv((brightness - 10) * 100, 245))

\* WizDevice.__init__
WizDevice(bulb) ==
    [BaseDevice("WizDevice", "", bulb) EXCEPT
        !._state = [@ EXCEPT !.is_online = TRUE, !.is_on = Some(FALSE),
                             !.brightness = Some(0)]]

WizDevice_refresh_state(d, reply) ==
    IF ~d.handle THEN Ret(d, "state", 0)
    ELSE IF reply.tx = "raise" THEN Err(SetState(d, "is_online", FALSE), "state")
    ELSE IF reply.tx = "falsy" THEN Ret(d, "state", 1)
    ELSE Ret([d EXCEPT !._state = [@ EXCEPT
                 !.is_on = Some(reply.get_state),
                 !.brightness =
                     IF reply.get_brightness # None
                     THEN Some(WizBrightnessToPercent(reply.get_brightness[1]))
                     ELSE Some(IF ~reply.get_state THEN 0 ELSE 100),
                 !.is_online = TRUE,
                 !.color_temp = IF reply.get_colortemp # None
                                THEN reply.get_colortemp ELSE @,
                 !.rgb = IF reply.get_rgb # None THEN reply.get_rgb ELSE @]],
             "state", 1)

\* WizDevice.connect: creates the bulb handle when missing, refreshes (refresh_state
\* absorbs its own transport error), then marks the device online
WizDevice_connect(d, reply) ==
    LET r == WizDevice_refresh_state([d EXCEPT !.handle = TRUE], reply)
    IN  [Ret(SetState(r.dev, "is_online", TRUE), "True", r.calls)
            EXCEPT !.opened = IF d.handle THEN 0 ELSE 1, !.errors = r.errors]

WizDevice_disconnect(d) == Ret([d EXCEPT !.handle = FALSE], "None", 0)

WizDevice_turn_on(d, tx) ==
    IF ~d.handle THEN Ret(d, "False", 0)
    ELSE IF tx = "ok" THEN Notify(SetState(d, "is_on", Some(TRUE)), "True", "False", 1)
    ELSE Err(d, "False")

WizDevice_turn_off(d, tx) ==
    IF ~d.handle THEN Ret(d, "False", 0)
    ELSE IF tx = "ok" THEN Notify(SetState(d, "is_on", Some(FALSE)), "True", "False", 1)
    ELSE Err(d, "False")

\* the transport gets the level converted and clamped to 10..255; the state gets level
WizDevice_set_brightness(d, level, tx) ==
    IF ~d.handle THEN Ret(d, "False", 0)
    ELSE IF tx = "ok"
         THEN Notify([d EXCEPT !._state = [@ EXCEPT !.brightness = Some(level),
                                                    !.is_on = Some(level > 0)]],
                     "True", "False", 1)
    ELSE Err(d, "False")

WizDevice_set_rgb(d, rgb, tx) ==
    IF ~d.handle THEN Ret(d, "False", 0)
    ELSE IF tx = "ok"
         THEN Notify([d EXCEPT !._state = [@ EXCEPT !.rgb = Some(rgb),
                                                    !.is_on = Some(TRUE)]],
                     "True", "False", 1)
    ELSE Err(d, "False")

\* WizManager._handle_bulb_found: the device as the manager hands it over
WizManager_handle_bulb_found(reply) ==
    IF reply.tx = "ok"
    THEN [WizDevice(TRUE) EXCEPT !._state = [@ EXCEPT
             !.is_on = Some(reply.get_state),
             !.brightness = IF reply.get_brightness # None
                            THEN Some(WizBrightnessToPercent(reply.get_brightness[1]))
                            ELSE @,
             !.is_online = TRUE]]
    ELSE WizDevice(TRUE)

----------------------------------------------------------------------------
(* devices/tapo_light.py: TapoDevice.  d.handle is "self._device is set".   *)

\* what device.get_device_info() can do: raise, or return an info object whose
\* brightness / hue+saturation / color_temp attributes may be missing (None)
TapoReplies ==
    [tx : {"ok"}, device_on : BOOLEAN, brightness : {None, Some(40)},
     saturation : {None, Some(0), Some(50)}, color_temp : {Some(0), Some(2700)}]
    \cup [tx : {"raise"}, device_on : {FALSE}, brightness : {None},
          saturation : {None}, color_temp : {None}]

\* TapoDevice.__init__
TapoDevice(device_handler) ==
    [BaseDevice("TapoDevice", "", device_handler) EXCEPT
        !._state = [@ EXCEPT !.is_online = TRUE, !.is_on = Some(FALSE),
                             !.brightness = Some(0)]]

TapoDevice_set_supports_color(d, supports) == [d EXCEPT !._supports_color = supports]

TapoDevice_refresh_state(d, info) ==
    IF ~d.handle THEN Ret(d, "state", 0)
    ELSE IF info.tx = "raise" THEN Err(SetState(d, "is_online", FALSE), "state")
    ELSE Ret([d EXCEPT
                 !._state = [@ EXCEPT
                     !.is_on = Some(info.device_on),
                     !.brightness = IF info.brightness # None THEN info.brightness
                                    ELSE Some(IF info.device_on THEN 100 ELSE 0),
                     !.is_online = TRUE,
                     !.color_temp = IF info.color_temp # None /\ info.color_temp[1] # 0
                                    THEN info.color_temp ELSE @],
                 !._supports_color =
                     IF info.saturation # None /\ info.saturation[1] > 0 THEN TRUE ELSE @],
             "state", 1)

TapoDevice_connect(d, info) ==
    IF ~d.handle THEN Ret(d, "False", 0)
    ELSE LET r == TapoDevice_refresh_state(d, info)
         IN  [Ret(SetState(r.dev, "is_online", TRUE), "True", r.calls)
                 EXCEPT !.errors = r.errors]

TapoDevice_disconnect(d) == Ret([d EXCEPT !.handle = FALSE], "None", 0)

TapoDevice_turn_on(d, tx) ==
    IF ~d.handle THEN Ret(d, "False", 0)
    ELSE IF tx = "ok" THEN Notify(SetState(d, "is_on", Some(TRUE)), "True", "False", 1)
    ELSE Err(d, "False")

TapoDevice_turn_off(d, tx) ==
    IF ~d.handle THEN Ret(d, "False", 0)
    ELSE IF tx = "ok" THEN Notify(SetState(d, "is_on", Some(FALSE)), "True", "False", 1)
    ELSE Err(d, "False")

TapoDevice_set_brightness(d, level, tx) ==
    IF ~d.handle THEN Ret(d, "False", 0)
    ELSE IF tx = "ok"
         THEN Notify([d EXCEPT !._state = [@ EXCEPT !.brightness = Some(level),
                                                    !.is_on = Some(level > 0)]],
                     "True", "False", 1)
    ELSE Err(d, "False")

TapoDevice_set_rgb(d, rgb, tx) ==
    IF ~d.handle THEN Ret(d, "False", 0)
    ELSE IF tx = "ok"
         THEN Notify([d EXCEPT !._state = [@ EXCEPT !.rgb = Some(rgb),
                                                    !.is_on = Some(TRUE)]],
                     "True", "False", 1)
    ELSE Err(d, "False")

\* TapoManager._connect_to_device: the device as the manager hands it over
\* (supports_color is TRUE when the l530 handler could be opened)
TapoManager_connect_to_device(supports_color, info) ==
    LET d == TapoDevice_set_supports_color(TapoDevice(TRUE), supports_color)
    IN  [d EXCEPT !._state = [@ EXCEPT
            !.is_on = Some(info.device_on),
            !.brightness = IF info.brightness # None THEN info.brightness ELSE Some(0),
            !.is_online = TRUE]]

----------------------------------------------------------------------------
(* devices/tuya_light.py: TuyaLightDevice, and devices/tuya.py: TuyaDevice. *)
(* d.handle is "self._device is set".                                       *)

\* what device.status() can do: raise, return something without 'dps' ("nodps"),
\* or a dict whose dps holds some of the keys '20', '1', '22', '2', '23'
\* (None: the key is absent)
TuyaReplies ==
    [tx : {"ok"}, d20 : {None, Some(FALSE)}, d1 : {None, Some(TRUE)},
     d22 : {None, Some(505)}, d2 : {None, Some(128)},
     d23 : {None, Some(1000)}]
    \cup [tx : {"raise", "nodps"}, d20 : {None}, d1 : {None}, d22 : {None},
          d2 : {None}, d23 : {None}]

\* TuyaLightDevice.__init__
TuyaLightDevice ==
    [BaseDevice("TuyaLightDevice", "", FALSE) EXCEPT
        !._state = [@ EXCEPT !.is_online = FALSE, !.is_on = Some(FALSE),
                             !.brightness = Some(0)]]

\* TuyaLightDevice._parse_status (the '24' colour key is never in the modelled dps)
TuyaLightDevice_parse_status(d, status) ==
    IF status.tx # "ok" THEN d
    ELSE [d EXCEPT !._state = [@ EXCEPT
             !.is_on = IF status.d20 # None THEN status.d20
                       ELSE IF status.d1 # None THEN status.d1 ELSE @,
             !.brightness =
                 IF status.d22 # None
                 THEN Some(Clamp(0, 100, TruncDiv((status.d22[1] - 10) * 100, 990)))
                 ELSE IF status.d2 # None
                      THEN Some(TruncDiv(status.d2[1] * 100, 255)) ELSE @]]

\* a new tinytuya.BulbDevice is created on every call and replaces self._device
TuyaLightDevice_connect(d, status) ==
    [(IF status.tx = "ok"
      THEN Ret(TuyaLightDevice_parse_status(
                   SetState([d EXCEPT !.handle = TRUE], "is_online", TRUE), status),
               "True", 1)
      ELSE Err(SetState([d EXCEPT !.handle = TRUE], "is_online", FALSE), "False"))
        EXCEPT !.opened = 1]

\* closes the vendor socket when there is one
TuyaLightDevice_disconnect(d) ==
    Ret([d EXCEPT !.handle = FALSE], "None", IF d.handle THEN 1 ELSE 0)

\* a refresh that falls back to the constructor's state when the bulb cannot be
\* reached
TuyaLightDevice_refresh_state_Reset(d, status) ==
    IF ~d.handle THEN Ret(d, "state", 0)
    ELSE IF status.tx = "ok"
         THEN Ret(SetState(TuyaLightDevice_parse_status(d, status), "is_online", TRUE),
                  "state", 1)
    ELSE Err([d EXCEPT !._state = TuyaLightDevice._state], "state")

TuyaLightDevice_refresh_state(d, status) ==
    IF ~d.handle THEN Ret(d, "state", 0)
    ELSE IF status.tx = "ok"
         THEN Ret(SetState(TuyaLightDevice_parse_status(d, status), "is_online", TRUE),
                  "state", 1)
    ELSE Err(SetState(d, "is_online", FALSE), "state")

TuyaLightDevice_turn_on(d, tx) ==
    IF ~d.handle THEN Ret(d, "False", 0)
    ELSE IF tx = "ok" THEN Notify(SetState(d, "is_on", Some(TRUE)), "True", "False", 1)
    ELSE Err(d, "False")

TuyaLightDevice_turn_off(d, tx) ==
    IF ~d.handle THEN Ret(d, "False", 0)
    ELSE IF tx = "ok" THEN Notify(SetState(d, "is_on", Some(FALSE)), "True", "False", 1)
    ELSE Err(d, "False")

\* the transport gets the level converted and clamped to 10..1000; the state gets level
TuyaLightDevice_set_brightness(d, level, tx) ==
    IF ~d.handle THEN Ret(d, "False", 0)
    ELSE IF tx = "ok"
         THEN Notify([d EXCEPT !._state = [@ EXCEPT !.brightness = Some(level),
                                                    !.is_on = Some(level > 0)]],
                     "True", "False", 1)
    ELSE Err(d, "False")

TuyaLightDevice_set_rgb(d, rgb, tx) ==
    IF ~d.handle THEN Ret(d, "False", 0)
    ELSE IF tx = "ok"
         THEN Notify([d EXCEPT !._state = [@ EXCEPT !.rgb = Some(rgb),
                                                    !.is_on = Some(TRUE)]],
                     "True", "False", 1)
    ELSE Err(d, "False")

\* TuyaDevice.__init__: device_type is "light", "switch" or "plug"
TuyaDevice(device_type) == BaseDevice("TuyaDevice", device_type, FALSE)

\* a new tinytuya device is created on every call and replaces self._device
TuyaDevice_connect(d, status) ==
    [(IF status.tx = "ok"
      THEN Ret(SetState([d EXCEPT !.handle = TRUE], "is_online", TRUE), "True", 1)
      ELSE Err(SetState([d EXCEPT !.handle = TRUE], "is_online", FALSE), "False"))
        EXCEPT !.opened = 1]

TuyaDevice_disconnect(d) ==
    Ret(SetState([d EXCEPT !.handle = FALSE], "is_online", FALSE), "None",
        IF d.handle THEN 1 ELSE 0)

TuyaDevice_refresh_state(d, status) ==
    IF ~d.handle THEN Ret(d, "state", 0)
    ELSE IF status.tx # "ok" THEN Err(SetState(d, "is_online", FALSE), "state")
    ELSE IF d.type_str = "light"
         THEN Ret([d EXCEPT !._state = [@ EXCEPT
                      !.is_online = TRUE,
                      !.is_on = IF status.d20 # None THEN status.d20 ELSE Some(FALSE),
                      !.brightness =
                          Some(Clamp(0, 100,
                                     TruncDiv(IF status.d22 # None THEN status.d22[1]
                                              ELSE 0, 10))),
                      !.color_temp =
                          Some(2700 + TruncDiv((IF status.d23 # None THEN status.d23[1]
                                                ELSE 0) * 3800, 1000))]],
                  "state", 1)
    ELSE Ret([d EXCEPT !._state = [@ EXCEPT
                 !.is_online = TRUE,
                 !.is_on = IF status.d1 # None THEN status.d1 ELSE Some(FALSE)]],
             "state", 1)

TuyaDevice_turn_on(d, tx) ==
    IF ~d.handle THEN Ret(d, "False", 0)
    ELSE IF tx = "ok" THEN Ret(SetState(d, "is_on", Some(TRUE)), "True", 1)
    ELSE Err(d, "False")

TuyaDevice_turn_off(d, tx) ==
    IF ~d.handle THEN Ret(d, "False", 0)
    ELSE IF tx = "ok" THEN Ret(SetState(d, "is_on", Some(FALSE)), "True", 1)
    ELSE Err(d, "False")

TuyaDevice_set_brightness(d, level, tx) ==
    IF ~has_capability(d, "BRIGHTNESS") THEN Ret(d, "NotImplementedError", 0)
    ELSE IF ~(0 <= level /\ level <= 100) THEN Ret(d, "ValueError", 0)
    ELSE IF ~d.handle THEN Ret(d, "False", 0)
    ELSE IF tx = "ok" THEN Ret(SetState(d, "brightness", Some(level)), "True", 1)
    ELSE Err(d, "False")

\* kelvin is clamped to 2700..6500 before it is sent and stored
TuyaDevice_set_color_temp(d, kelvin, tx) ==
    IF ~has_capability(d, "COLOR_TEMP") THEN Ret(d, "NotImplementedError", 0)
    ELSE IF ~d.handle THEN Ret(d, "False", 0)
    ELSE IF tx = "ok"
         THEN Ret(SetState(d, "color_temp", Some(Clamp(2700, 6500, kelvin))), "True", 1)
    ELSE Err(d, "False")

TuyaDevice_set_rgb(d, rgb, tx) ==
    IF ~has_capability(d, "RGB_COLOR") THEN Ret(d, "NotImplementedError", 0)
    ELSE IF ~(\A i \in 1..3 : 0 <= rgb[i] /\ rgb[i] <= 255) THEN Ret(d, "ValueError", 0)
    ELSE IF ~d.handle THEN Ret(d, "False", 0)
    ELSE IF tx = "ok" THEN Ret(SetState(d, "rgb", Some(rgb)), "True", 1)
    ELSE Err(d, "False")

----------------------------------------------------------------------------
(* devices/chromecast.py: ChromecastDevice.  d.handle is "self._cast is set" *)

\* cast.status as the vendor object holds it: missing (present = FALSE) or a
\* status with volume_level (in hundredths) and is_stand_by
CastStatuses ==
    [present : {TRUE}, volume_level : {29, 50}, is_stand_by : BOOLEAN]
    \cup [present : {FALSE}, volume_level : {0}, is_stand_by : {FALSE}]

\* int(status.volume_level * 100) for volume_level = h / 100, h in 0..100: the
\* double product falls just below h for h = 29, 57 and 58, and int() truncates
CastVolumePercent(h) == IF h \in {29, 57, 58} THEN h - 1 ELSE h

\* ChromecastDevice.__init__ followed by _setup_cast when a cast object is given
ChromecastDevice(cast, status) ==
    LET d == [BaseDevice("ChromecastDevice", "", cast) EXCEPT
                 !._state = [@ EXCEPT !.is_online = TRUE, !.volume = Some(0),
                                      !.playback_state = "IDLE"]]
    IN  IF cast /\ status.present
        THEN [d EXCEPT !._state = [@ EXCEPT
                 !.volume = Some(CastVolumePercent(status.volume_level)),
                 !.is_on = Some(~status.is_stand_by)]]
        ELSE d

\* ChromecastStatusListener.new_cast_status: the callback is called outside any
\* try block, so its exception reaches the vendor thread that delivered the status
ChromecastStatusListener_new_cast_status(d, status) ==
    IF status.present
    THEN Notify([d EXCEPT !._state = [@ EXCEPT
                    !.volume = Some(CastVolumePercent(status.volume_level)),
                    !.is_on = Some(~status.is_stand_by)]],
                "None", "Exception", 0)
    ELSE Ret(d, "None", 0)

\* status.player_state as the media controller reports it (None: no status object)
PlayerStates == {None, Some("PLAYING"), Some("STOPPED")}

\* ChromecastMediaListener.new_media_status
ChromecastMediaListener_new_media_status(d, player_state) ==
    IF player_state # None
    THEN Notify(SetState(d, "playback_state",
                         IF player_state[1] \in {"PLAYING", "PAUSED", "BUFFERING", "IDLE"}
                         THEN player_state[1] ELSE "UNKNOWN"),
                "None", "Exception", 0)
    ELSE Ret(d, "None", 0)

\* ChromecastDevice.set_state_callback; WizDevice, TapoDevice and TuyaLightDevice
\* have the same method
ChromecastDevice_set_state_callback(d, callback) ==
    Ret([d EXCEPT !._on_state_changed = Some(callback)], "None", 0)

ChromecastDevice_connect(d) == Ret(d, IF d.handle THEN "True" ELSE "False", 0)

ChromecastDevice_disconnect(d) ==
    Ret([d EXCEPT !.handle = FALSE], "None", IF d.handle THEN 1 ELSE 0)

ChromecastDevice_refresh_state(d, status) ==
    IF d.handle /\ status.present
    THEN Ret([d EXCEPT !._state = [@ EXCEPT
                 !.volume = Some(CastVolumePercent(status.volume_level)),
                 !.is_on = Some(~status.is_stand_by),
                 !.is_online = TRUE]],
             "state", 0)
    ELSE Ret(d, "state", 0)

ChromecastDevice_turn_on(d) == Ret(d, "True", 0)

ChromecastDevice_turn_off(d, tx) ==
    IF ~d.handle THEN Ret(d, "False", 0)
    ELSE IF tx = "ok" THEN Ret(d, "True", 1)
    ELSE Err(d, "False")

\* records the level and (re)arms the 100 ms debounce timer; nothing is sent yet
ChromecastDevice_set_volume(d, level) ==
    IF ~d.handle THEN Ret(d, "False", 0)
    ELSE Ret([d EXCEPT !._pending_volume = Some(level),
                       !._volume_debounce_timer = TRUE],
             "True", 0)

\* ChromecastDevice._send_volume, run by the timer: the transport gets the level
\* clamped to 0.0..1.0, the state gets the pending level
ChromecastDevice_send_volume(d, tx) ==
    IF d._pending_volume = None \/ ~d.handle THEN Ret(d, "None", 0)
    ELSE IF tx = "ok"
         THEN Ret([SetState(d, "volume", d._pending_volume) EXCEPT
                      !._pending_volume = None],
                  "None", 1)
    ELSE Err([d EXCEPT !._pending_volume = None], "None")

\* ChromecastDevice.play; pause and stop have the same body
ChromecastDevice_play(d, tx) ==
    IF ~d.handle THEN Ret(d, "False", 0)
    ELSE IF tx = "ok" THEN Ret(d, "True", 1)
    ELSE Err(d, "False")

----------------------------------------------------------------------------
(* app.py: DiscoveredDeviceAdapter *)

\* DiscoveredDeviceAdapter.__init__: result.device_type is the discovery type hint
DiscoveredDeviceAdapter(device_type) ==
    SetState(BaseDevice("DiscoveredDeviceAdapter", device_type, FALSE), "is_online", TRUE)

\* connect returns True, disconnect does nothing, refresh_state returns the state
DiscoveredDeviceAdapter_connect(d) == Ret(d, "True", 0)

DiscoveredDeviceAdapter_disconnect(d) == Ret(d, "None", 0)

DiscoveredDeviceAdapter_refresh_state(d) == Ret(d, "state", 0)

----------------------------------------------------------------------------
(* toggle: BaseDevice.toggle and the overrides.  self.turn_on() and          *)
(* self.turn_off() resolve to the method of the object's class.             *)

self_turn_on(d, tx) ==
    CASE d.cls = "WizDevice" -> WizDevice_turn_on(d, tx)
      [] d.cls = "TapoDevice" -> TapoDevice_turn_on(d, tx)
      [] d.cls = "TuyaLightDevice" -> TuyaLightDevice_turn_on(d, tx)
      [] d.cls = "TuyaDevice" -> TuyaDevice_turn_on(d, tx)
      [] d.cls = "ChromecastDevice" -> ChromecastDevice_turn_on(d)
      [] OTHER -> BaseDevice_turn_on(d)

self_turn_off(d, tx) ==
    CASE d.cls = "WizDevice" -> WizDevice_turn_off(d, tx)
      [] d.cls = "TapoDevice" -> TapoDevice_turn_off(d, tx)
      [] d.cls = "TuyaLightDevice" -> TuyaLightDevice_turn_off(d, tx)
      [] d.cls = "TuyaDevice" -> TuyaDevice_turn_off(d, tx)
      [] d.cls = "ChromecastDevice" -> ChromecastDevice_turn_off(d, tx)
      [] OTHER -> BaseDevice_turn_on(d)

\* the result of toggle: the result r of the one power operation op it awaited, or
\* the value it returned without awaiting any
Attempt(op, r) == [r EXCEPT !.attempted = <<[op |-> op, ret |-> r.ret]>>]
NoAttempt(d, ret) == Ret(d, ret, 0)

\* a toggle that takes an unknown is_on (None) for "on"
BaseDevice_toggle_NoneIsOn(d, tx) ==
    IF d._state.is_on # Some(FALSE) THEN Attempt("turn_off", self_turn_off(d, tx))
    ELSE Attempt("turn_on", self_turn_on(d, tx))

\* BaseDevice.toggle; WizDevice.toggle, TapoDevice.toggle and TuyaLightDevice.toggle
\* have the same body.  "if self._state.is_on" is false for None and for False.
BaseDevice_toggle(d, tx) ==
    IF d._state.is_on = Some(TRUE) THEN Attempt("turn_off", self_turn_off(d, tx))
    ELSE Attempt("turn_on", self_turn_on(d, tx))

\* cast.status.app_id as toggle reads it: no status object, a falsy app_id (""),
\* the backdrop app, or another app
CastApps == {"no_status", "", "E8C28D3C", "CC1AD845"}

\* ChromecastDevice.toggle: decided by the running app, not by is_on
ChromecastDevice_toggle(d, app_id, tx) ==
    IF ~d.handle THEN NoAttempt(d, "False")
    ELSE IF app_id \notin {"no_status", "", "E8C28D3C"}
         THEN Attempt("turn_off", self_turn_off(d, tx))
    ELSE NoAttempt(d, "True")

----------------------------------------------------------------------------
(* SpecDev: one device object and the calls made on it *)

notDev == <<regVars, busVars, bridgeVars, appVars>>

\* arguments the callers pass
Levels == ((0 - MaxOver)..(0 - 1)) \cup {0, 50, 100} \cup (101..(100 + MaxOver))
RGBs == {<<0, 128, 255>>, <<256, 0, 0>>}
Kelvins == {2000, 4000}
Positions == {0 - 10, 30}
\* a vendor call returns or raises
Tx == {"ok", "raise"}

\* the device objects the program constructs: directly, or by a vendor manager
\* that fills in the first state it read from the device
InitDevices ==
    {WizDevice(bulb) : bulb \in BOOLEAN}
    \cup {WizManager_handle_bulb_found(r) : r \in {x \in WizReplies : x.tx # "raise"}}
    \cup {TapoDevice(h) : h \in BOOLEAN}
    \cup {TapoManager_connect_to_device(c, i) :
              c \in BOOLEAN, i \in {x \in TapoReplies : x.tx = "ok"}}
    \cup {TuyaLightDevice}
    \cup {TuyaDevice(t) : t \in {"light", "switch", "plug"}}
    \cup {ChromecastDevice(c, st) : c \in BOOLEAN, st \in CastStatuses}
    \cup {DiscoveredDeviceAdapter(t) :
              t \in {"hue_bridge", "chromecast", "esphome", "generic_http"}}

InitDev ==
    /\ dev \in InitDevices
    /\ last = [op |-> "__init__", args |-> <<>>, ret |-> "None", calls |-> 0, pre |-> dev,
               errors |-> 0, notified |-> <<>>, opened |-> 0, attempted |-> <<>>]

\* a call of method op with args whose outcome is r
Call(op, args, r) ==
    /\ dev' = r.dev
    /\ last' = [op |-> op, args |-> args, ret |-> r.ret, calls |-> r.calls, pre |-> dev,
                errors |-> r.errors, notified |-> r.notified, opened |-> r.opened,
                attempted |-> r.attempted]
    /\ UNCHANGED notDev

\* what the vendor library can answer when device d asks it for the device's status
VendorReplies(d) ==
    CASE d.cls = "WizDevice" -> WizReplies
      [] d.cls = "TapoDevice" -> TapoReplies
      [] d.cls \in {"TuyaLightDevice", "TuyaDevice"} -> TuyaReplies
      [] OTHER -> CastStatuses

connect ==
    \E v \in VendorReplies(dev) :
        Call("connect", <<>>,
             CASE dev.cls = "WizDevice" -> WizDevice_connect(dev, v)
               [] dev.cls = "TapoDevice" -> TapoDevice_connect(dev, v)
               [] dev.cls = "TuyaLightDevice" -> TuyaLightDevice_connect(dev, v)
               [] dev.cls = "TuyaDevice" -> TuyaDevice_connect(dev, v)
               [] dev.cls = "ChromecastDevice" -> ChromecastDevice_connect(dev)
               [] OTHER -> DiscoveredDeviceAdapter_connect(dev))

disconnect ==
    Call("disconnect", <<>>,
         CASE dev.cls = "WizDevice" -> WizDevice_disconnect(dev)
           [] dev.cls = "TapoDevice" -> TapoDevice_disconnect(dev)
           [] dev.cls = "TuyaLightDevice" -> TuyaLightDevice_disconnect(dev)
           [] dev.cls = "TuyaDevice" -> TuyaDevice_disconnect(dev)
           [] dev.cls = "ChromecastDevice" -> ChromecastDevice_disconnect(dev)
           [] OTHER -> DiscoveredDeviceAdapter_disconnect(dev))

\* how the vendor answered: "ok" (a status), "raise", "falsy" or "nodps" (no usable
\* status), and for a Chromecast whether the cached cast.status is there
ReplyKind(d, v) ==
    IF d.cls \in {"WizDevice", "TapoDevice", "TuyaLightDevice", "TuyaDevice"} THEN v.tx
    ELSE IF v.present THEN "ok" ELSE "no_status"

\* refresh_state records how the vendor answered with the call
refresh_state ==
    \E v \in VendorReplies(dev) :
        Call("refresh_state", <<ReplyKind(dev, v)>>,
             CASE dev.cls = "WizDevice" -> WizDevice_refresh_state(dev, v)
               [] dev.cls = "TapoDevice" -> TapoDevice_refresh_state(dev, v)
               [] dev.cls = "TuyaLightDevice" -> TuyaLightDevice_refresh_state(dev, v)
               [] dev.cls = "TuyaDevice" -> TuyaDevice_refresh_state(dev, v)
               [] dev.cls = "ChromecastDevice" -> ChromecastDevice_refresh_state(dev, v)
               [] OTHER -> DiscoveredDeviceAdapter_refresh_state(dev))

turn_on ==
    \E tx \in Tx : Call("turn_on", <<>>, self_turn_on(dev, tx))

turn_off ==
    \E tx \in Tx : Call("turn_off", <<>>, self_turn_off(dev, tx))

\* toggle records the power operations it awaited; a Chromecast's toggle also reads
\* the cast's running app, recorded with the call
toggle ==
    \E tx \in Tx, app_id \in CastApps :
        IF dev.cls = "ChromecastDevice"
        THEN Call("toggle", <<app_id>>, ChromecastDevice_toggle(dev, app_id, tx))
        ELSE Call("toggle", <<>>, BaseDevice_toggle(dev, tx))

set_brightness ==
    \E level \in Levels, tx \in Tx :
        Call("set_brightness", <<level>>,
             CASE dev.cls = "WizDevice" -> WizDevice_set_brightness(dev, level, tx)
               [] dev.cls = "TapoDevice" -> TapoDevice_set_brightness(dev, level, tx)
               [] dev.cls = "TuyaLightDevice" ->
                      TuyaLightDevice_set_brightness(dev, level, tx)
               [] dev.cls = "TuyaDevice" -> TuyaDevice_set_brightness(dev, level, tx)
               [] OTHER -> BaseDevice_set_brightness(dev, level))

set_color_temp ==
    \E kelvin \in Kelvins, tx \in Tx :
        Call("set_color_temp", <<kelvin>>,
             CASE dev.cls = "TuyaDevice" -> TuyaDevice_set_color_temp(dev, kelvin, tx)
               [] OTHER -> BaseDevice_set_color_temp(dev, kelvin))

set_rgb ==
    \E rgb \in RGBs, tx \in Tx :
        Call("set_rgb", rgb,
             CASE dev.cls = "WizDevice" -> WizDevice_set_rgb(dev, rgb, tx)
               [] dev.cls = "TapoDevice" -> TapoDevice_set_rgb(dev, rgb, tx)
               [] dev.cls = "TuyaLightDevice" -> TuyaLightDevice_set_rgb(dev, rgb, tx)
               [] dev.cls = "TuyaDevice" -> TuyaDevice_set_rgb(dev, rgb, tx)
               [] OTHER -> BaseDevice_set_rgb(dev, rgb))

set_volume ==
    \E level \in Levels :
        Call("set_volume", <<level>>,
             CASE dev.cls = "ChromecastDevice" -> ChromecastDevice_set_volume(dev, level)
               [] OTHER -> BaseDevice_set_volume(dev, level))

\* the debounce timer fires and runs _send_volume on its own thread
send_volume ==
    /\ dev.cls = "ChromecastDevice"
    /\ dev._volume_debounce_timer
    /\ \E tx \in Tx :
           Call("_send_volume", <<>>,
                LET r == ChromecastDevice_send_volume(dev, tx)
                IN  Ret([r.dev EXCEPT !._volume_debounce_timer = FALSE], r.ret, r.calls))

\* the cast socket pushes a status to the listener registered by _setup_cast
new_cast_status ==
    /\ dev.cls = "ChromecastDevice"
    /\ dev.handle
    /\ \E st \in CastStatuses :
           Call("new_cast_status", <<>>, ChromecastStatusListener_new_cast_status(dev, st))

\* the media controller pushes a media status to the listener
new_media_status ==
    /\ dev.cls = "ChromecastDevice"
    /\ dev.handle
    /\ \E player_state \in PlayerStates :
           Call("new_media_status", <<>>,
                ChromecastMediaListener_new_media_status(dev, player_state))

\* the classes the vendor managers hand over take a state-changed callback
set_state_callback ==
    /\ dev.cls \in {"WizDevice", "TapoDevice", "TuyaLightDevice", "ChromecastDevice"}
    /\ \E callback \in Callbacks :
           Call("set_state_callback", <<callback>>,
                ChromecastDevice_set_state_callback(dev, callback))

play ==
    \E tx \in Tx :
        Call("play", <<>>,
             CASE dev.cls = "ChromecastDevice" -> ChromecastDevice_play(dev, tx)
               [] OTHER -> BaseDevice_play(dev))

pause ==
    \E tx \in Tx :
        Call("pause", <<>>,
             CASE dev.cls = "ChromecastDevice" -> ChromecastDevice_play(dev, tx)
               [] OTHER -> BaseDevice_play(dev))

stop ==
    \E tx \in Tx :
        Call("stop", <<>>,
             CASE dev.cls = "ChromecastDevice" -> ChromecastDevice_play(dev, tx)
               [] OTHER -> BaseDevice_play(dev))

seek ==
    \E position \in Positions : Call("seek", <<position>>, BaseDevice_seek(dev, position))

seek_relative ==
    \E offset \in Positions :
        Call("seek_relative", <<offset>>, BaseDevice_seek(dev, offset))

NextDev ==
    \/ connect
    \/ disconnect
    \/ refresh_state
    \/ turn_on
    \/ turn_off
    \/ toggle
    \/ set_brightness
    \/ set_color_temp
    \/ set_rgb
    \/ set_volume
    \/ send_volume
    \/ new_cast_status
    \/ play
    \/ pause
    \/ stop
    \/ seek
    \/ seek_relative

\* SpecNotify: a device as its vendor manager hands it to the application, the
\* state-changed callbacks registered on it, and the calls that notify
HandedOver ==
    {WizManager_handle_bulb_found(r) : r \in {x \in WizReplies : x.tx # "raise"}}
    \cup {TapoManager_connect_to_device(c, i) :
              c \in BOOLEAN, i \in {x \in TapoReplies : x.tx = "ok"}}
    \cup {TuyaLightDevice}
    \cup {ChromecastDevice(TRUE, st) : st \in CastStatuses}

NextNotify ==
    \/ set_state_callback
    \/ connect
    \/ turn_on
    \/ turn_off
    \/ toggle
    \/ set_brightness
    \/ set_color_temp
    \/ set_rgb
    \/ set_volume
    \/ send_volume
    \/ play
    \/ pause
    \/ stop
    \/ new_cast_status
    \/ new_media_status

----------------------------------------------------------------------------
(* devices/registry.py: DeviceRegistry *)

\* Python's dict, which keeps insertion order: a sequence of key/value entries
\* with no key twice
DictHas(dct, k) == \E i \in 1..Len(dct) : dct[i].key = k
\* dct.get(k): Some(value) or None
DictGet(dct, k) ==
    IF DictHas(dct, k)
    THEN Some(dct[CHOOSE i \in 1..Len(dct) : dct[i].key = k].value) ELSE None
\* dct[k] = v: replaces the value of an existing key in place, else appends
DictSet(dct, k, v) ==
    IF DictHas(dct, k)
    THEN [i \in 1..Len(dct) |-> IF dct[i].key = k THEN [key |-> k, value |-> v]
                                ELSE dct[i]]
    ELSE Append(dct, [key |-> k, value |-> v])
DictDel(dct, k) == SelectSeq(dct, LAMBDA e : e.key # k)
\* list(dct.keys()) and list(dct.values())
DictKeys(dct) == [i \in 1..Len(dct) |-> dct[i].key]
DictValues(dct) == [i \in 1..Len(dct) |-> dct[i].value]

\* "x in lst"
ListHas(lst, x) == \E i \in 1..Len(lst) : lst[i] = x

\* the device ids and the device objects handed to the registry: two objects per
\* id (inst tells them apart), one an online light, the other an offline speaker
DeviceIds == 1..MaxIds
RegDevices ==
    {[device_id |-> id, inst |-> n,
      device_type |-> IF n = 1 THEN "LIGHT" ELSE "SPEAKER", is_online |-> (n = 1)] :
         id \in DeviceIds, n \in 1..2}

\* the registry object
Registry ==
    [_devices |-> _devices, _on_device_added |-> _on_device_added,
     _on_device_removed |-> _on_device_removed,
     _on_device_updated |-> _on_device_updated]

\* DeviceRegistry.__init__
DeviceRegistry ==
    [_devices |-> <<>>, _on_device_added |-> <<>>, _on_device_removed |-> <<>>,
     _on_device_updated |-> <<>>]

\* one invocation of callback cb with a device (added, updated) or an id (removed)
Invocation(cb, device, device_id) == [cb |-> cb, device |-> device, device_id |-> device_id]

\* the result of a registry call: the registry after it, what it returned (a bool,
\* a device, a list; None where it returns nothing of that kind), whether an
\* exception reached the caller, and the callback invocations made, in order
RegRet(r, ret_bool, ret_device, ret_list, raised, fired) ==
    [reg |-> r, ret_bool |-> ret_bool, ret_device |-> ret_device,
     ret_list |-> ret_list, raised |-> raised, fired |-> fired]

\* a list returned to the caller: fresh is TRUE when it is a new container and
\* FALSE when it is the registry's own container
List(fresh, items) == Some([fresh |-> fresh, items |-> items])

\* a mutant: the try/except around the callback is missing, so the first raising
\* callback ends the loop and its exception leaves the method
FireCallbacks_NoCatch(callbacks, device, device_id) ==
    LET bad == {i \in 1..Len(callbacks) : Raises(callbacks[i])}
        n == IF bad = {} THEN Len(callbacks)
             ELSE CHOOSE i \in bad : \A j \in bad : i <= j
    IN  [fired |-> [i \in 1..n |-> Invocation(callbacks[i], device, device_id)],
         raised |-> bad # {}]

\* a mutant: the callbacks are invoked last-registered first
FireCallbacks_Reversed(callbacks, device, device_id) ==
    [fired |-> [i \in 1..Len(callbacks) |->
                   Invocation(callbacks[Len(callbacks) + 1 - i], device, device_id)],
     raised |-> FALSE]

\* "for callback in callbacks: try: callback(arg) except Exception: log": every
\* callback is invoked in list order and an Exception it raises is swallowed
FireCallbacks(callbacks, device, device_id) ==
    [fired |-> [i \in 1..Len(callbacks) |->
                   Invocation(callbacks[i], device, device_id)],
     raised |-> FALSE]

\* a mutant: the "already in registry" guard is missing
DeviceRegistry_add_device_NoGuard(r, device) ==
    LET n == FireCallbacks(r._on_device_added, Some(device), None)
    IN  RegRet([r EXCEPT !._devices = DictSet(@, device.device_id, device)],
               Some(TRUE), None, None, n.raised, n.fired)

DeviceRegistry_add_device(r, device) ==
    IF DictHas(r._devices, device.device_id)
    THEN RegRet(r, Some(FALSE), None, None, FALSE, <<>>)
    ELSE LET n == FireCallbacks(r._on_device_added, Some(device), None)
         IN  RegRet([r EXCEPT !._devices = DictSet(@, device.device_id, device)],
                    IF n.raised THEN None ELSE Some(TRUE), None, None,
                    n.raised, n.fired)

\* a mutant: the device is looked up with get, not popped
DeviceRegistry_remove_device_NoPop(r, device_id) ==
    IF DictGet(r._devices, device_id) # None
    THEN RegRet(r, None, DictGet(r._devices, device_id), None, FALSE,
                FireCallbacks(r._on_device_removed, None, Some(device_id)).fired)
    ELSE RegRet(r, None, None, None, FALSE, <<>>)

DeviceRegistry_remove_device(r, device_id) ==
    LET device == DictGet(r._devices, device_id)
        popped == [r EXCEPT !._devices = DictDel(@, device_id)]
    IN  IF device # None
        THEN LET n == FireCallbacks(r._on_device_removed, None, Some(device_id))
             IN  RegRet(popped, None, IF n.raised THEN None ELSE device, None,
                        n.raised, n.fired)
        ELSE RegRet(popped, None, None, None, FALSE, <<>>)

\* a mutant: the "not registered" guard is missing
DeviceRegistry_update_device_NoGuard(r, device) ==
    LET n == FireCallbacks(r._on_device_updated, Some(device), None)
    IN  RegRet(r, None, None, None, n.raised, n.fired)

DeviceRegistry_update_device(r, device) ==
    IF ~DictHas(r._devices, device.device_id)
    THEN RegRet(r, None, None, None, FALSE, <<>>)
    ELSE LET n == FireCallbacks(r._on_device_updated, Some(device), None)
         IN  RegRet(r, None, None, None, n.raised, n.fired)

\* the loop of clear(): remove_device for each id of the snapshot, in order; an
\* exception leaving remove_device ends the loop
RECURSIVE ClearLoop(_, _, _)
ClearLoop(r, device_ids, fired) ==
    IF device_ids = <<>> THEN RegRet(r, None, None, None, FALSE, fired)
    ELSE LET one == DeviceRegistry_remove_device(r, Head(device_ids))
         IN  IF one.raised
             THEN RegRet(one.reg, None, None, None, TRUE, fired \o one.fired)
             ELSE ClearLoop(one.reg, Tail(device_ids), fired \o one.fired)

\* a mutant: the dict is emptied in one go (self._devices.clear())
DeviceRegistry_clear_Bulk(r) ==
    RegRet([r EXCEPT !._devices = <<>>], None, None, None, FALSE, <<>>)

DeviceRegistry_clear(r) == ClearLoop(r, DictKeys(r._devices), <<>>)

\* a mutant: the property hands out the registry's own container
DeviceRegistry_devices_Live(r) ==
    RegRet(r, None, None, List(FALSE, DictValues(r._devices)), FALSE, <<>>)

\* the devices property: list(self._devices.values())
DeviceRegistry_devices(r) ==
    RegRet(r, None, None, List(TRUE, DictValues(r._devices)), FALSE, <<>>)

DeviceRegistry_get_device(r, device_id) ==
    RegRet(r, None, DictGet(r._devices, device_id), None, FALSE, <<>>)

DeviceRegistry_get_devices_by_type(r, device_type) ==
    RegRet(r, None, None,
           List(TRUE, SelectSeq(DictValues(r._devices),
                                LAMBDA d : d.device_type = device_type)),
           FALSE, <<>>)

DeviceRegistry_get_online_devices(r) ==
    RegRet(r, None, None,
           List(TRUE, SelectSeq(DictValues(r._devices), LAMBDA d : d.is_online)),
           FALSE, <<>>)

\* device_count and __len__: len(self._devices)
DeviceRegistry_device_count(r) == Len(r._devices)

\* on_device_added / on_device_removed / on_device_updated: list.append
DeviceRegistry_on_device_added(r, callback) ==
    RegRet([r EXCEPT !._on_device_added = Append(@, callback)],
           None, None, None, FALSE, <<>>)

DeviceRegistry_on_device_removed(r, callback) ==
    RegRet([r EXCEPT !._on_device_removed = Append(@, callback)],
           None, None, None, FALSE, <<>>)

DeviceRegistry_on_device_updated(r, callback) ==
    RegRet([r EXCEPT !._on_device_updated = Append(@, callback)],
           None, None, None, FALSE, <<>>)

----------------------------------------------------------------------------
(* SpecReg: one DeviceRegistry and the calls made on it *)

notReg == <<devVars, busVars, bridgeVars, appVars>>

NoCall(op) ==
    [op |-> op, device |-> None, device_id |-> None, ret_bool |-> None,
     ret_device |-> None, ret_list |-> None, raised |-> FALSE, fired |-> <<>>,
     pre |-> DeviceRegistry]

InitReg ==
    /\ _devices = DeviceRegistry._devices
    /\ _on_device_added = DeviceRegistry._on_device_added
    /\ _on_device_removed = DeviceRegistry._on_device_removed
    /\ _on_device_updated = DeviceRegistry._on_device_updated
    /\ rlast = NoCall("__init__")

\* a call of registry method op with a device and/or an id whose outcome is res
RegCall(op, device, device_id, res) ==
    /\ _devices' = res.reg._devices
    /\ _on_device_added' = res.reg._on_device_added
    /\ _on_device_removed' = res.reg._on_device_removed
    /\ _on_device_updated' = res.reg._on_device_updated
    /\ rlast' = [op |-> op, device |-> device, device_id |-> device_id,
                 ret_bool |-> res.ret_bool, ret_device |-> res.ret_device,
                 ret_list |-> res.ret_list, raised |-> res.raised,
                 fired |-> res.fired, pre |-> Registry]
    /\ UNCHANGED notReg

add_device ==
    \E device \in RegDevices :
        RegCall("add_device", Some(device), None,
                DeviceRegistry_add_device(Registry, device))

remove_device ==
    \E device_id \in DeviceIds :
        RegCall("remove_device", None, Some(device_id),
                DeviceRegistry_remove_device(Registry, device_id))

update_device ==
    \E device \in RegDevices :
        RegCall("update_device", Some(device), None,
                DeviceRegistry_update_device(Registry, device))

clear == RegCall("clear", None, None, DeviceRegistry_clear(Registry))

RegisteredCallbacks ==
    Len(_on_device_added) + Len(_on_device_removed) + Len(_on_device_updated)

on_device_added ==
    /\ RegisteredCallbacks < MaxCallbacks
    /\ \E callback \in Callbacks :
           RegCall("on_device_added", None, None,
                   DeviceRegistry_on_device_added(Registry, callback))

on_device_removed ==
    /\ RegisteredCallbacks < MaxCallbacks
    /\ \E callback \in Callbacks :
           RegCall("on_device_removed", None, None,
                   DeviceRegistry_on_device_removed(Registry, callback))

on_device_updated ==
    /\ RegisteredCallbacks < MaxCallbacks
    /\ \E callback \in Callbacks :
           RegCall("on_device_updated", None, None,
                   DeviceRegistry_on_device_updated(Registry, callback))

devices == RegCall("devices", None, None, DeviceRegistry_devices(Registry))

get_device ==
    \E device_id \in DeviceIds :
        RegCall("get_device", None, Some(device_id),
                DeviceRegistry_get_device(Registry, device_id))

get_devices_by_type ==
    \E device_type \in {"LIGHT", "SPEAKER", "SWITCH"} :
        RegCall("get_devices_by_type", None, None,
                DeviceRegistry_get_devices_by_type(Registry, device_type))

get_online_devices ==
    RegCall("get_online_devices", None, None,
            DeviceRegistry_get_online_devices(Registry))

\* what a caller can do to a list it holds: append a device, remove the first
\* element, reverse it
ListMutations(items) ==
    {Append(items, d) : d \in RegDevices}
    \cup (IF items = <<>> THEN {} ELSE {Tail(items)})
    \cup {[i \in 1..Len(items) |-> items[Len(items) + 1 - i]]}

\* the caller mutates the list the last query returned and then drops it. A list
\* that is the registry's own container changes the registry with it.
mutate_returned ==
    /\ rlast.ret_list # None
    /\ \E items \in ListMutations(rlast.ret_list[1].items) :
           RegCall("mutate_returned", None, None,
                   RegRet(IF rlast.ret_list[1].fresh THEN Registry
                          ELSE [Registry EXCEPT !._devices =
                                   [i \in 1..Len(items) |->
                                       [key |-> items[i].device_id, value |-> items[i]]]],
                          None, None, None, FALSE, <<>>))

NextReg ==
    \/ add_device
    \/ remove_device
    \/ update_device
    \/ clear
    \/ on_device_added
    \/ on_device_removed
    \/ on_device_updated
    \/ devices
    \/ get_device
    \/ get_devices_by_type
    \/ get_online_devices
    \/ mutate_returned

----------------------------------------------------------------------------
(* devices/registry.py with callbacks that call back into the registry.     *)
(* The callbacks run synchronously inside add_device and remove_device, so  *)
(* what a callback does to the registry is done before the next callback of *)
(* the same notification runs.                                              *)

\* callbacks that re-enter the registry. Called for an added device, cb_unregister
\* calls remove_device(device.device_id); called for a removed id, cb_readd calls
\* add_device with a device of that id and cb_cascade calls remove_device for the
\* first id still registered. Called otherwise they return.
AddedCallbacks == {"cb_ok", "cb_unregister"}
RemovedCallbacks == {"cb_ok", "cb_readd", "cb_cascade"}

\* one invocation as the callback finds the registry: seen is _devices at the
\* call and entered is _devices when the loop over the callbacks began
Seen(cb, kind, device, device_id, seen, entered) ==
    [cb |-> cb, kind |-> kind, device |-> device, device_id |-> device_id,
     seen |-> seen, entered |-> entered]

\* the device a callback re-adds for an id
Replacement(device_id) ==
    [device_id |-> device_id, inst |-> 2, device_type |-> "SPEAKER", is_online |-> FALSE]

RECURSIVE Reentrant_add_device(_, _)
RECURSIVE Reentrant_remove_device(_, _)
RECURSIVE FireReentrant(_, _, _, _, _, _, _)

\* the body of callback cb run for a notification of the kind given
CallbackBody(cb, kind, r, device, device_id) ==
    CASE cb = "cb_unregister" /\ kind = "added" ->
             Reentrant_remove_device(r, device[1].device_id)
      [] cb = "cb_readd" /\ kind = "removed" ->
             Reentrant_add_device(r, Replacement(device_id[1]))
      [] cb = "cb_cascade" /\ kind = "removed" /\ r._devices # <<>> ->
             Reentrant_remove_device(r, r._devices[1].key)
      [] OTHER -> [reg |-> r, fired |-> <<>>]

\* "for callback in callbacks: try: callback(arg) except ...", from callback i on
FireReentrant(callbacks, kind, r, device, device_id, i, entered) ==
    IF i > Len(callbacks) THEN [reg |-> r, fired |-> <<>>]
    ELSE LET one == CallbackBody(callbacks[i], kind, r, device, device_id)
             rest == FireReentrant(callbacks, kind, one.reg, device, device_id,
                                   i + 1, entered)
         IN  [reg |-> rest.reg,
              fired |-> <<Seen(callbacks[i], kind, device, device_id,
                               r._devices, entered)>> \o one.fired \o rest.fired]

\* a mutant: the callbacks are told before the device is stored
Reentrant_add_device_NotifyFirst(r, device) ==
    IF DictHas(r._devices, device.device_id) THEN [reg |-> r, fired |-> <<>>]
    ELSE LET n == FireReentrant(r._on_device_added, "added", r, Some(device), None,
                                1, r._devices)
         IN  [reg |-> [n.reg EXCEPT !._devices = DictSet(@, device.device_id, device)],
              fired |-> n.fired]

\* add_device: the duplicate check, the store, then the "added" callbacks
Reentrant_add_device(r, device) ==
    IF DictHas(r._devices, device.device_id) THEN [reg |-> r, fired |-> <<>>]
    ELSE LET stored == [r EXCEPT !._devices = DictSet(@, device.device_id, device)]
         IN  FireReentrant(r._on_device_added, "added", stored, Some(device), None,
                           1, stored._devices)

\* remove_device: the pop, then the "removed" callbacks if there was a device
Reentrant_remove_device(r, device_id) ==
    IF ~DictHas(r._devices, device_id) THEN [reg |-> r, fired |-> <<>>]
    ELSE LET popped == [r EXCEPT !._devices = DictDel(@, device_id)]
         IN  FireReentrant(r._on_device_removed, "removed", popped, None,
                           Some(device_id), 1, popped._devices)

\* clear(): remove_device for each id of list(self._devices.keys())
RECURSIVE ClearReentrant(_, _)
ClearReentrant(r, device_ids) ==
    IF device_ids = <<>> THEN [reg |-> r, fired |-> <<>>]
    ELSE LET one == Reentrant_remove_device(r, Head(device_ids))
             rest == ClearReentrant(one.reg, Tail(device_ids))
         IN  [reg |-> rest.reg, fired |-> one.fired \o rest.fired]

Reentrant_clear(r) == ClearReentrant(r, DictKeys(r._devices))

(* SpecReentry *)

\* a registry call whose callbacks may have called back
ReentrantCall(op, device, device_id, res) ==
    RegCall(op, device, device_id,
            RegRet(res.reg, None, None, None, FALSE, res.fired))

reentrant_add_device ==
    \E device \in {d \in RegDevices : d.inst = 1} :
        ReentrantCall("add_device", Some(device), None,
                      Reentrant_add_device(Registry, device))

reentrant_remove_device ==
    \E device_id \in DeviceIds :
        ReentrantCall("remove_device", None, Some(device_id),
                      Reentrant_remove_device(Registry, device_id))

reentrant_clear ==
    /\ _devices # <<>>
    /\ ReentrantCall("clear", None, None, Reentrant_clear(Registry))

\* a callback that re-adds what is removed and one that removes what is there
\* would call each other without end; a client registers cb_readd only without
\* the other two
Endless(added, removed) ==
    ListHas(removed, "cb_readd")
        /\ (ListHas(added, "cb_unregister") \/ ListHas(removed, "cb_cascade"))

register_added ==
    /\ RegisteredCallbacks < MaxCallbacks
    /\ \E callback \in AddedCallbacks :
           /\ ~Endless(Append(_on_device_added, callback), _on_device_removed)
           /\ RegCall("on_device_added", None, None,
                      DeviceRegistry_on_device_added(Registry, callback))

register_removed ==
    /\ RegisteredCallbacks < MaxCallbacks
    /\ \E callback \in RemovedCallbacks :
           /\ ~Endless(_on_device_added, Append(_on_device_removed, callback))
           /\ RegCall("on_device_removed", None, None,
                      DeviceRegistry_on_device_removed(Registry, callback))

NextReentry ==
    \/ reentrant_add_device
    \/ reentrant_remove_device
    \/ reentrant_clear
    \/ register_added
    \/ register_removed

----------------------------------------------------------------------------
(* core/events.py: EventBus *)

\* the event types published in the model (two members of EventType)
EventTypes == {"DEVICE_DISCOVERED", "DEVICE_REMOVED"}

\* the callbacks a client can subscribe. Called with an event of type t:
\*   h_ok returns; h_raise raises an Exception;
\*   h_once calls unsubscribe(t, itself) and returns;
\*   h_once_raise calls unsubscribe(t, itself) and then raises an Exception;
\*   h_resub calls unsubscribe(t, itself), subscribe(t, itself) and returns
Handlers == {"h_ok", "h_raise", "h_once", "h_once_raise", "h_resub"}
HandlerRaises(cb) == cb \in {"h_raise", "h_once_raise"}

\* EventBus.__init__
EventBus == <<>>

\* the result of a bus call: the subscriber dict after it, the callbacks invoked
\* in order, whether an exception reached the caller
BusRet(subs, fired, raised) == [subs |-> subs, fired |-> fired, raised |-> raised]

\* lst.remove(x) of a list that holds x
ListRemove(lst, x) ==
    LET k == CHOOSE i \in 1..Len(lst) : lst[i] = x /\ \A j \in 1..(i - 1) : lst[j] # x
    IN  [i \in 1..(Len(lst) - 1) |-> IF i < k THEN lst[i] ELSE lst[i + 1]]

EventBus_subscribe(subs, event_type, callback) ==
    LET withKey == IF DictHas(subs, event_type) THEN subs
                   ELSE DictSet(subs, event_type, <<>>)
        lst == DictGet(withKey, event_type)[1]
    IN  BusRet(IF ListHas(lst, callback) THEN withKey
               ELSE DictSet(withKey, event_type, Append(lst, callback)),
               <<>>, FALSE)

\* a mutant: list.remove without the try/except ValueError around it, so a
\* callback that is not in the list raises
EventBus_unsubscribe_NoCatch(subs, event_type, callback) ==
    IF DictHas(subs, event_type)
    THEN LET lst == DictGet(subs, event_type)[1]
         IN  IF ListHas(lst, callback)
             THEN BusRet(DictSet(subs, event_type, ListRemove(lst, callback)),
                         <<>>, FALSE)
             ELSE BusRet(subs, <<>>, TRUE)
    ELSE BusRet(subs, <<>>, FALSE)

EventBus_unsubscribe(subs, event_type, callback) ==
    IF DictHas(subs, event_type)
    THEN LET lst == DictGet(subs, event_type)[1]
         IN  IF ListHas(lst, callback)
             THEN BusRet(DictSet(subs, event_type, ListRemove(lst, callback)),
                         <<>>, FALSE)
             ELSE BusRet(subs, <<>>, FALSE)
    ELSE BusRet(subs, <<>>, FALSE)

\* what calling callback cb with an event of type event_type does to the bus
HandlerBody(cb, subs, event_type) ==
    CASE cb \in {"h_once", "h_once_raise"} ->
             EventBus_unsubscribe(subs, event_type, cb).subs
      [] cb = "h_resub" ->
             EventBus_subscribe(EventBus_unsubscribe(subs, event_type, cb).subs,
                                event_type, cb).subs
      [] OTHER -> subs

\* "for callback in self._subscribers[event.type]": the list iterator holds an
\* index into the live list and stops when the index reaches its length; each
\* callback runs inside try/except Exception
RECURSIVE PublishLoop(_, _, _, _)
PublishLoop(subs, event_type, i, fired) ==
    LET lst == DictGet(subs, event_type)[1]
    IN  IF i > Len(lst) THEN BusRet(subs, fired, FALSE)
        ELSE PublishLoop(HandlerBody(lst[i], subs, event_type), event_type, i + 1,
                         Append(fired, lst[i]))

EventBus_publish(subs, event_type) ==
    IF DictHas(subs, event_type) THEN PublishLoop(subs, event_type, 1, <<>>)
    ELSE BusRet(subs, <<>>, FALSE)

----------------------------------------------------------------------------
(* SpecBus: one EventBus and the calls made on it *)

notBus == <<devVars, regVars, bridgeVars, appVars>>

InitBus ==
    /\ _subscribers = EventBus
    /\ blast = [op |-> "__init__", event_type |-> "", callback |-> "",
                fired |-> <<>>, raised |-> FALSE, pre |-> EventBus]

\* a call of bus method op whose outcome is res
BusCall(op, event_type, callback, res) ==
    /\ _subscribers' = res.subs
    /\ blast' = [op |-> op, event_type |-> event_type, callback |-> callback,
                 fired |-> res.fired, raised |-> res.raised, pre |-> _subscribers]
    /\ UNCHANGED notBus

\* the callbacks subscribed to event_type (none when the type has no key)
SubscribersOf(subs, event_type) ==
    IF DictHas(subs, event_type) THEN DictGet(subs, event_type)[1] ELSE <<>>

subscribe ==
    \E event_type \in EventTypes, callback \in Handlers :
        /\ \/ Len(SubscribersOf(_subscribers, event_type)) < MaxSubs
           \/ ListHas(SubscribersOf(_subscribers, event_type), callback)
        /\ BusCall("subscribe", event_type, callback,
                   EventBus_subscribe(_subscribers, event_type, callback))

unsubscribe ==
    \E event_type \in EventTypes, callback \in Handlers :
        BusCall("unsubscribe", event_type, callback,
                EventBus_unsubscribe(_subscribers, event_type, callback))

publish ==
    \E event_type \in EventTypes :
        BusCall("publish", event_type, "",
                EventBus_publish(_subscribers, event_type))

NextBus ==
    \/ subscribe
    \/ unsubscribe
    \/ publish

----------------------------------------------------------------------------
(* utils/async_helpers.py: AsyncBridge *)

\* the bridge object with the state of the worker threads it has started
Bridge ==
    [_loop |-> _loop, _thread |-> _thread, _running |-> _running, workers |-> workers]

\* AsyncBridge.__init__
AsyncBridge ==
    [_loop |-> None, _thread |-> None, _running |-> FALSE, workers |-> <<>>]

is_running(b) == b._running /\ b._loop # None

\* a mutant: the "already running" guard is missing
AsyncBridge_start_NoGuard(b) ==
    [b EXCEPT !._loop = Some(Len(b.workers) + 1), !._running = TRUE,
              !._thread = Some(Len(b.workers) + 1),
              !.workers = Append(b.workers, "run_forever")]

\* start(): a new event loop, and a new thread that enters _run_loop
AsyncBridge_start(b) ==
    IF b._running THEN b
    ELSE [b EXCEPT !._loop = Some(Len(b.workers) + 1), !._running = TRUE,
                   !._thread = Some(Len(b.workers) + 1),
                   !.workers = Append(b.workers, "run_forever")]

\* stop() up to the join: clears _running and asks the loop to stop; the worker
\* gets to the request when it has run what is queued before it
AsyncBridge_stop(b) ==
    IF ~b._running THEN b
    ELSE [b EXCEPT !._running = FALSE,
                   !.workers = IF b._loop # None
                               THEN [@ EXCEPT ![b._loop[1]] = "stopping"] ELSE @]

\* a mutant: only the loop is tested, not _running
Schedulable_LoopOnly(b) == b._loop # None

\* the guard of run_async and run_async_with_gui_callback:
\* "if not self._loop or not self._running: return None"
Schedulable(b) == ~(b._loop = None \/ ~b._running)

\* the coroutine object a client passes with its callbacks: fails tells whether it
\* raises; loop is the loop it was scheduled on (None: not scheduled); state is
\* "new" (never scheduled), "pending" or "done"; was_running is is_running at
\* the call; handler tells whether
\* handle_result is attached to or has run for its future; body is the callback
\* body that was executed for it, with the thread that executed it; raises tells
\* what raises when handle_result runs ("none", the success "callback", or
\* "gui_schedule" at its first call) and also is the callback body that
\* handle_result's except branch executed after that; invoked counts the calls
\* of the callback that matches the outcome
Coroutine(api, callback, error_callback, fails) ==
    [api |-> api, callback |-> callback, error_callback |-> error_callback,
     fails |-> fails, loop |-> None, ret |-> "None", state |-> "new",
     handler |-> "none", body |-> None, drained |-> "none", was_running |-> FALSE,
     raises |-> "none", also |-> None, invoked |-> 0]

\* a callback body executed on a thread; late tells that stop() had returned
Body(which, thread, late) == Some([which |-> which, thread |-> thread, late |-> late])

\* the first lines of run_async / run_async_with_gui_callback, up to and
\* including asyncio.run_coroutine_threadsafe
Submit(b, coro) ==
    IF ~Schedulable(b) THEN coro
    ELSE [coro EXCEPT !.loop = b._loop, !.ret = "Future", !.state = "pending"]

\* a mutant: the GUI variant calls the callbacks itself, as run_async does
handle_result_Direct(i, op, thread, late) ==
    LET which == IF op.fails THEN "error_callback" ELSE "callback"
    IN  [op |-> [op EXCEPT !.handler = "ran",
                           !.body = IF op[which] THEN Body(which, thread, late) ELSE @,
                           !.invoked = IF op[which] THEN @ + 1 ELSE @],
         scheduled |-> <<>>]

\* handle_result(f) of operation i running on a thread: f.result() returns or
\* raises; run_async calls the callback itself, run_async_with_gui_callback hands
\* a lambda calling it to gui_schedule. The callback and gui_schedule are called
\* inside the try, so what they raise reaches the except branch as well.
handle_result(i, op, thread, late) ==
    LET which == IF op.fails THEN "error_callback" ELSE "callback"
        caught == ~op.fails /\ op.callback /\ op.error_callback
    IN  IF op.api = "run_async"
        THEN [op |-> [op EXCEPT !.handler = "ran",
                                !.body = IF op[which] THEN Body(which, thread, late)
                                         ELSE @,
                                !.invoked = IF op[which] THEN @ + 1 ELSE @,
                                !.also = IF caught /\ op.raises = "callback"
                                         THEN Body("error_callback", thread, late)
                                         ELSE @],
              scheduled |-> <<>>]
        ELSE [op |-> [op EXCEPT !.handler = "ran"],
              scheduled |-> IF ~op.fails /\ op.callback /\ op.raises = "gui_schedule"
                            THEN IF op.error_callback
                                 THEN <<[op |-> i, which |-> "error_callback"]>>
                                 ELSE <<>>
                            ELSE IF op[which] THEN <<[op |-> i, which |-> which]>>
                                 ELSE <<>>]

----------------------------------------------------------------------------
(* SpecBridge: one AsyncBridge, a client thread, its workers, the UI thread *)

notBridge == <<devVars, regVars, busVars, appVars>>

InitBridge ==
    /\ _loop = AsyncBridge._loop
    /\ _thread = AsyncBridge._thread
    /\ _running = AsyncBridge._running
    /\ workers = AsyncBridge.workers
    /\ ops = <<>>
    /\ pc = "idle"
    /\ gui_queue = <<>>
    /\ klast = [op |-> "__init__", pre |-> AsyncBridge, joined |-> FALSE]

SetBridge(b) ==
    /\ _loop' = b._loop
    /\ _thread' = b._thread
    /\ _running' = b._running
    /\ workers' = b.workers

\* stop() has returned for loop n: a later loop exists, or n is the current loop
\* and the bridge is stopped with the client out of stop()
StopReturned(n) ==
    /\ _loop # None
    /\ \/ n < _loop[1]
       \/ n = _loop[1] /\ ~_running /\ pc = "idle"

bridge_start ==
    /\ pc = "idle"
    /\ _running \/ Len(workers) < MaxLoops
    /\ SetBridge(AsyncBridge_start(Bridge))
    /\ klast' = [op |-> "start", pre |-> Bridge, joined |-> FALSE]
    /\ UNCHANGED <<ops, pc, gui_queue, notBridge>>

\* a mutant: stop() cancels the futures of the coroutines still pending on the
\* loop, so their handle_result runs with the cancellation as the error
bridge_stop_Cancel ==
    /\ pc = "idle"
    /\ SetBridge(AsyncBridge_stop(Bridge))
    /\ pc' = IF _running /\ _thread # None /\ workers[_thread[1]] # "closed"
             THEN "join" ELSE "idle"
    /\ klast' = [op |-> "stop", pre |-> Bridge, joined |-> FALSE]
    /\ ops' = [i \in 1..Len(ops) |->
                  IF _running /\ ops[i].state = "pending" /\ ops[i].loop = _loop
                  THEN handle_result(i, [ops[i] EXCEPT !.state = "done", !.fails = TRUE],
                                     "caller", FALSE).op
                  ELSE ops[i]]
    /\ UNCHANGED <<gui_queue, notBridge>>

\* stop() from its first line to thread.join(timeout=5); a stop() that finds the
\* bridge stopped, or its thread dead, returns here
bridge_stop ==
    /\ pc = "idle"
    /\ SetBridge(AsyncBridge_stop(Bridge))
    /\ pc' = IF _running /\ _thread # None /\ workers[_thread[1]] # "closed"
             THEN "join" ELSE "idle"
    /\ klast' = [op |-> "stop", pre |-> Bridge, joined |-> FALSE]
    /\ UNCHANGED <<ops, gui_queue, notBridge>>

\* thread.join(timeout=5) returns: the worker has exited, or the five seconds
\* have passed with the worker still inside the loop
bridge_stop_join ==
    /\ pc = "join"
    /\ pc' = "idle"
    /\ klast' = [klast EXCEPT !.joined = (workers[_thread[1]] = "closed")]
    /\ UNCHANGED <<_loop, _thread, _running, workers, ops, gui_queue, notBridge>>

\* run_async / run_async_with_gui_callback up to run_coroutine_threadsafe; with a
\* callback the client goes on to add_done_callback, else it returns
Schedule(api) ==
    /\ Len(ops) < MaxOps
    /\ \E callback \in BOOLEAN, error_callback \in BOOLEAN, fails \in BOOLEAN :
           LET op == Submit(Bridge, Coroutine(api, callback, error_callback, fails))
           IN  /\ ops' = Append(ops, [op EXCEPT !.was_running = is_running(Bridge)])
               /\ pc' = IF op.state = "pending" /\ (callback \/ error_callback)
                        THEN "attach" ELSE "idle"
    /\ UNCHANGED <<_loop, _thread, _running, workers, gui_queue, klast, notBridge>>

\* the same with a success callback that raises, or a gui_schedule that does
ScheduleRaising(api, raises) ==
    /\ Len(ops) < MaxOps
    /\ \E error_callback \in BOOLEAN :
           LET op == Submit(Bridge, [Coroutine(api, TRUE, error_callback, FALSE)
                                        EXCEPT !.raises = raises])
           IN  /\ ops' = Append(ops, [op EXCEPT !.was_running = is_running(Bridge)])
               /\ pc' = IF op.state = "pending" THEN "attach" ELSE "idle"
    /\ UNCHANGED <<_loop, _thread, _running, workers, gui_queue, klast, notBridge>>

run_async ==
    /\ pc = "idle"
    /\ Schedule("run_async")

run_async_with_gui_callback ==
    /\ pc = "idle"
    /\ Schedule("run_async_with_gui_callback")

\* a mutant: a future that is already done when the client attaches
\* handle_result does not call it
add_done_callback_NoLateCall ==
    /\ pc = "attach"
    /\ pc' = "idle"
    /\ ops' = [ops EXCEPT ![Len(ops)].handler = "attached"]
    /\ UNCHANGED <<_loop, _thread, _running, workers, gui_queue, klast, notBridge>>

\* future.add_done_callback(handle_result) and the return: a future that is
\* already done calls handle_result at once, on the calling thread
add_done_callback ==
    /\ pc = "attach"
    /\ pc' = "idle"
    /\ LET i == Len(ops)
           r == handle_result(i, ops[i], "caller", StopReturned(ops[i].loop[1]))
       IN  IF ops[i].state = "done"
           THEN /\ ops' = [ops EXCEPT ![i] = r.op]
                /\ gui_queue' = gui_queue \o r.scheduled
           ELSE /\ ops' = [ops EXCEPT ![i].handler = "attached"]
                /\ gui_queue' = gui_queue
    /\ UNCHANGED <<_loop, _thread, _running, workers, klast, notBridge>>

\* _run_loop inside run_forever: the worker runs a pending coroutine of its loop
\* to its end; the future is set on the worker thread, which calls an attached
\* handle_result. A worker asked to stop still runs what was queued before the
\* request.
run_loop_complete ==
    \E i \in 1..Len(ops) :
        /\ ops[i].state = "pending"
        /\ workers[ops[i].loop[1]] \in {"run_forever", "stopping"}
        /\ LET done == [ops[i] EXCEPT !.state = "done"]
               r == handle_result(i, done, "loop", StopReturned(ops[i].loop[1]))
           IN  IF ops[i].handler = "attached"
               THEN /\ ops' = [ops EXCEPT ![i] = r.op]
                    /\ gui_queue' = gui_queue \o r.scheduled
               ELSE /\ ops' = [ops EXCEPT ![i] = done]
                    /\ gui_queue' = gui_queue
        /\ UNCHANGED <<_loop, _thread, _running, workers, pc, klast, notBridge>>

\* _run_loop: run_forever returns at the stop request and the loop is closed
run_loop_close ==
    \E n \in 1..Len(workers) :
        /\ workers[n] = "stopping"
        /\ workers' = [workers EXCEPT ![n] = "closed"]
        /\ UNCHANGED <<_loop, _thread, _running, ops, pc, gui_queue, klast, notBridge>>

\* the UI thread runs the oldest lambda handed to gui_schedule. The success
\* lambda calls callback(result). The error lambda reads the variable e of
\* handle_result, which Python unbound when the except block ended: it raises
\* NameError and error_callback is not called.
gui_drain ==
    /\ gui_queue # <<>>
    /\ gui_queue' = Tail(gui_queue)
    /\ LET t == Head(gui_queue)
       IN  ops' = IF t.which = "callback"
                  THEN [ops EXCEPT ![t.op].body =
                           Body("callback", "ui", StopReturned(ops[t.op].loop[1])),
                                   ![t.op].drained = "callback",
                                   ![t.op].invoked = @ + 1]
                  ELSE [ops EXCEPT ![t.op].drained = "NameError"]
    /\ UNCHANGED <<_loop, _thread, _running, workers, pc, klast, notBridge>>

\* run_async with a success callback that raises when it is called
run_async_callback_raises ==
    /\ pc = "idle"
    /\ ScheduleRaising("run_async", "callback")

\* run_async_with_gui_callback with a gui_schedule that raises at its first call
run_async_gui_schedule_raises ==
    /\ pc = "idle"
    /\ ScheduleRaising("run_async_with_gui_callback", "gui_schedule")

NextBridge ==
    \/ bridge_start
    \/ bridge_stop
    \/ bridge_stop_join
    \/ run_async
    \/ run_async_with_gui_callback
    \/ add_done_callback
    \/ run_loop_complete
    \/ run_loop_close
    \/ gui_drain

\* the bridge with clients that use run_async, with callbacks that return or raise
NextRunAsync ==
    \/ bridge_start
    \/ bridge_stop
    \/ bridge_stop_join
    \/ run_async
    \/ run_async_callback_raises
    \/ add_done_callback
    \/ run_loop_complete
    \/ run_loop_close

\* the bridge with clients whose callbacks or scheduling primitive may raise
NextCallbacks ==
    \/ NextBridge
    \/ run_async_callback_raises
    \/ run_async_gui_schedule_raises

----------------------------------------------------------------------------
(* devices/chromecast.py: set_volume and _send_volume with their threads.   *)
(* set_volume runs on the bridge's loop thread; every threading.Timer is a  *)
(* thread of its own that waits 100 ms and then runs _send_volume, unless   *)
(* it was cancelled while it waited.                                        *)

\* set_volume calls made on the device
MaxRequests == 2

\* the levels the volume slider asks for
Volumes == {20, 60}

\* no timer yet.  A timer is "waiting", "cancelled", "sending" (inside
\* _send_volume, at the vendor call, with the level it computed) or "finished";
\* requested lists the levels of the set_volume calls, sent the levels the
\* vendor call delivered, each with the timer that sent it
NoTimers == [timers |-> <<>>, requested |-> <<>>, sent |-> <<>>]

\* Timer.cancel(): a timer that has not fired yet never will, any other is unaffected
Cancel(timers) ==
    [k \in 1..Len(timers) |->
        IF timers[k].state = "waiting" THEN [timers[k] EXCEPT !.state = "cancelled"]
        ELSE timers[k]]

\* _send_volume from the vendor call on: _state.volume is assigned from
\* _pending_volume as it is now, and _pending_volume is cleared in the finally
ChromecastDevice_send_volume_tail(d, tx) ==
    IF tx = "ok"
    THEN [SetState(d, "volume", d._pending_volume) EXCEPT !._pending_volume = None]
    ELSE [d EXCEPT !._pending_volume = None]

(* SpecVolume *)

notVolume == <<last, regVars, busVars, bridgeVars, app, svc>>

\* set_volume(level): stores the level, cancels the timer and starts a new one
volume_requested ==
    /\ Len(vol.requested) < MaxRequests
    /\ \E level \in Volumes :
           /\ dev' = ChromecastDevice_set_volume(dev, level).dev
           /\ vol' = [vol EXCEPT
                  !.timers = Append(Cancel(@), [state |-> "waiting", volume |-> None]),
                  !.requested = Append(@, level)]
    /\ UNCHANGED notVolume

\* a timer fires: _send_volume returns at once when nothing is pending, else it
\* computes the level to send and calls the vendor
timer_fires ==
    \E k \in 1..Len(vol.timers) :
        /\ vol.timers[k].state = "waiting"
        /\ vol' = [vol EXCEPT !.timers[k] =
                      IF dev._pending_volume = None \/ ~dev.handle
                      THEN [state |-> "finished", volume |-> None]
                      ELSE [state |-> "sending",
                            volume |-> Some(Clamp(0, 100, dev._pending_volume[1]))]]
        /\ UNCHANGED <<dev, notVolume>>

\* the vendor call of a timer returns or raises, and _send_volume runs to its end
timer_sends ==
    \E k \in 1..Len(vol.timers), tx \in Tx :
        /\ vol.timers[k].state = "sending"
        /\ dev' = ChromecastDevice_send_volume_tail(dev, tx)
        /\ vol' = [vol EXCEPT
               !.timers[k].state = "finished",
               !.sent = IF tx = "ok"
                        THEN Append(@, [timer |-> k, level |-> vol.timers[k].volume[1]])
                        ELSE @]
        /\ UNCHANGED notVolume

NextVolume ==
    \/ volume_requested
    \/ timer_fires
    \/ timer_sends

----------------------------------------------------------------------------
(* discovery/service.py: DiscoveryService over discovery/mdns.py's          *)
(* MDNSDiscovery, with one found and one lost callback registered.          *)

\* number of calls and mDNS events the discovery service handles
MaxEvents == 4

\* the service names zeroconf announces, and the ids given to add_manual_device
ServiceNames == {"tv", "lamp"}
ManualIds == {"tv"}

\* f"mdns:{device.name}" and f"manual:{device_id}"
DiscoveryId(source, name) == <<source, name>>

\* MDNSDiscovery.__init__: browsing tells whether ServiceBrowsers of this object
\* are alive and deliver events to its listener
MDNSDiscovery == [_running |-> FALSE, browsing |-> FALSE]

\* MDNSDiscovery.start() with zeroconf installed: raises tells what raises inside
\* the try ("none", the "Zeroconf" constructor, or a "ServiceBrowser" after the
\* first one was created). The except branch calls stop(), which returns at once
\* because _running is still false, so browsers already created stay alive.
MDNSDiscovery_start(m, raises) ==
    IF m._running THEN [mdns |-> m, ret |-> TRUE]
    ELSE IF raises = "none"
         THEN [mdns |-> [m EXCEPT !._running = TRUE, !.browsing = TRUE], ret |-> TRUE]
         ELSE [mdns |-> [m EXCEPT !.browsing = @ \/ raises = "ServiceBrowser"],
               ret |-> FALSE]

\* MDNSDiscovery.stop()
MDNSDiscovery_stop(m) ==
    IF ~m._running THEN m ELSE [m EXCEPT !._running = FALSE, !.browsing = FALSE]

\* DiscoveryService.__init__: notified is what the registered callbacks were
\* called with, in order; known tells whether the id was in _discovered when the
\* handler was entered
DiscoveryService ==
    [_running |-> FALSE, _discovered |-> {}, _mdns |-> MDNSDiscovery, notified |-> <<>>]

Notification(kind, device_id, known) ==
    [kind |-> kind, device_id |-> device_id, known |-> known]

\* what start() did: the component after it, what it returned and whether the
\* discovery or connection attempt was made
Started(component, ret, attempted) ==
    [component |-> component, ret |-> ret, attempted |-> attempted]

\* DiscoveryService.start() with zeroconf installed
DiscoveryService_start(s, raises) ==
    IF s._running THEN Started(s, TRUE, FALSE)
    ELSE LET r == MDNSDiscovery_start(s._mdns, raises)
         IN  Started([s EXCEPT !._mdns = r.mdns, !._running = r.ret], r.ret, TRUE)

\* DiscoveryService.stop()
DiscoveryService_stop(s) ==
    IF ~s._running THEN s
    ELSE [s EXCEPT !._running = FALSE, !._mdns = MDNSDiscovery_stop(@)]

\* _handle_mdns_discovered(device): the listener's add_service and
\* update_service both end here
DiscoveryService_mdns_discovered(s, name) ==
    LET device_id == DiscoveryId("mdns", name)
        is_new == device_id \notin s._discovered
    IN  [s EXCEPT !._discovered = @ \cup {device_id},
                  !.notified = IF is_new
                               THEN Append(@, Notification("found", device_id, FALSE))
                               ELSE @]

\* _handle_device_removed(name)
DiscoveryService_device_removed(s, name) ==
    LET device_id == DiscoveryId("mdns", name)
    IN  IF device_id \in s._discovered
        THEN [s EXCEPT !._discovered = @ \ {device_id},
                       !.notified = Append(@, Notification("lost", device_id, TRUE))]
        ELSE s

\* add_manual_device(device_id, ...): stores the result and notifies, whether or
\* not the id was there
DiscoveryService_add_manual_device(s, id) ==
    LET device_id == DiscoveryId("manual", id)
    IN  [s EXCEPT !._discovered = @ \cup {device_id},
                  !.notified = Append(@, Notification("found", device_id,
                                                      device_id \in s._discovered))]

\* clear()
DiscoveryService_clear(s) == [s EXCEPT !._discovered = {}]

\* WizManager.__init__, ChromecastManager.__init__, TuyaLightManager.__init__
Manager == [_running |-> FALSE]

\* TapoManager.__init__ and set_credentials: credentials tells whether a user
\* name and a password are configured
TapoManager(credentials) == [_running |-> FALSE, credentials |-> credentials]

\* WizManager.start() with pywizlight installed: raises tells whether
\* discover_lights or a bulb's handling raises
WizManager_start(m, raises) ==
    IF m._running THEN Started(m, TRUE, FALSE)
    ELSE Started([m EXCEPT !._running = TRUE], ~raises, TRUE)

\* TapoManager.start() with tapo installed: raises tells whether ApiClient raises
TapoManager_start(m, raises) ==
    IF m._running THEN Started(m, TRUE, FALSE)
    ELSE IF ~m.credentials THEN Started(m, FALSE, FALSE)
    ELSE Started([m EXCEPT !._running = TRUE], ~raises, TRUE)

\* ChromecastManager.start() with pychromecast installed: raises tells whether
\* Zeroconf, CastBrowser or start_discovery raises
ChromecastManager_start(m, raises) ==
    IF m._running THEN Started(m, TRUE, FALSE)
    ELSE Started([m EXCEPT !._running = ~raises], ~raises, TRUE)

\* TuyaLightManager.start() with tinytuya installed: a device that does not
\* connect is logged and skipped
TuyaLightManager_start(m) ==
    IF m._running THEN Started(m, TRUE, FALSE)
    ELSE Started([m EXCEPT !._running = TRUE], TRUE, TRUE)

\* stop() of WizManager, TapoManager, TuyaLightManager and ChromecastManager
Manager_stop(m) == [m EXCEPT !._running = FALSE]

\* the components the application starts and stops
Components == {"discovery", "chromecast", "wiz", "tapo", "tuya"}

\* the services of one application: events counts the calls and mDNS events
\* handled, called is the set of operations called so far, last is the last
\* call with what it returned and whether the component was running before it,
\* succeeded tells per component whether its last attempt to start succeeded
\* and it was not stopped since, cleanup whether _cleanup was called and
\* stopping which coroutine handed to the bridge is the component's stop()
Services ==
    [discovery |-> DiscoveryService, chromecast |-> Manager, wiz |-> Manager,
     tapo |-> TapoManager(TRUE), tuya |-> Manager,
     events |-> 0, called |-> {}, cleanup |-> FALSE,
     stopping |-> [c \in Components |-> 0],
     succeeded |-> [c \in Components |-> FALSE],
     last |-> [who |-> "discovery", op |-> "__init__", ret |-> TRUE,
               attempted |-> FALSE, was_running |-> FALSE]]

----------------------------------------------------------------------------
(* app.py: IoTManagerApp's discovery handlers, with the callers that run    *)
(* them: DiscoveryService (discovery/service.py) on the zeroconf thread,    *)
(* ChromecastManager on pychromecast's browser thread, and WizManager,      *)
(* TapoManager and TuyaLightManager as coroutines on the bridge worker.     *)

\* the threads that deliver discoveries, and the thread of window.mainloop()
AppThreads == {"mdns", "cast", "worker"}
UiThread == "ui"

\* device names seen per source
MaxNames == 1
\* window.after callbacks pending on the UI thread
MaxAfter == 2

Names == 1..MaxNames
\* DiscoveredDevice.device_type_hint of a discovery result
Hints == {"chromecast", "esphome", "tuya"}

\* the device object a handler hands to the registry; its id is prefixed by the
\* source ("mdns:", "chromecast:", "wiz:"), inst tells one Python object from
\* another of the same id, and hint is the result's device_type of a
\* DiscoveredDeviceAdapter ("" for a manager's device)
AppDevice(source, name, inst, hint) ==
    [device_id |-> <<source, name>>, inst |-> inst,
     device_type |-> IF source = "chromecast" THEN "SPEAKER"
                     ELSE IF source = "mdns"
                          THEN DiscoveredDeviceAdapter_device_type([type_str |-> hint])
                          ELSE "LIGHT",
     hint |-> hint, is_online |-> TRUE]

\* IoTManagerApp.__init__ with its collaborators: whether pychromecast is
\* installed and whether Tuya devices are configured (the managers exist
\* accordingly), DiscoveryService._discovered, the vendor managers' _devices, the
\* registry call each thread is inside of (None: none), the callbacks posted with
\* window.after, the cards of the window's DeviceList as <<id, inst>>, and the
\* last registry write or device failure with the thread it ran on
IoTManagerApp(PYCHROMECAST_AVAILABLE, tuya_devices) ==
    [_chromecast_manager |-> PYCHROMECAST_AVAILABLE, _tuya_manager |-> tuya_devices,
     _discovered |-> {}, managers |-> {}, inside |-> [t \in AppThreads |-> None],
     after |-> <<>>, window |-> {},
     last |-> [op |-> "__init__", thread |-> UiThread, device_id |-> None]]

\* the ids that have a card
Shown(a) == {c[1] : c \in a.window}

\* the objects of an id that something still refers to: the registry, a card, a
\* posted callback or a handler in progress
Referenced(a, device_id) ==
    {_devices[i].value.inst : i \in {j \in 1..Len(_devices) : _devices[j].key = device_id}}
    \cup {c[2] : c \in {w \in a.window : w[1] = device_id}}
    \cup {a.after[k].inst : k \in {j \in 1..Len(a.after) : a.after[j].device_id = device_id}}
    \cup {a.inside[t][1].device[1].inst :
              t \in {u \in AppThreads : /\ a.inside[u] # None
                                         /\ a.inside[u][1].device # None
                                         /\ a.inside[u][1].device_id = device_id}}

\* a newly constructed object is none of the objects referred to
NewInst(a, device_id) ==
    CHOOSE n \in 1..(Cardinality(Referenced(a, device_id)) + 1) :
        /\ n \notin Referenced(a, device_id)
        /\ \A m \in 1..(n - 1) : m \in Referenced(a, device_id)

\* thread t calls a registry method from a handler
EnterRegistry(a, t, op, device, device_id) ==
    [a EXCEPT !.inside[t] = Some([op |-> op, device |-> device,
                                  device_id |-> device_id])]

\* IoTManagerApp._handle_device_discovered up to its registry.add_device call;
\* Chromecast results are left to the ChromecastManager when pychromecast is
\* installed, every other result gets a new DiscoveredDeviceAdapter
IoTManagerApp_handle_device_discovered(a, t, device_id, hint) ==
    IF hint = "chromecast" /\ a._chromecast_manager THEN a
    ELSE EnterRegistry(a, t, "add_device",
                       Some(AppDevice("mdns", device_id[2], NewInst(a, device_id), hint)),
                       device_id)

\* IoTManagerApp._handle_chromecast_found / _handle_wiz_found / _handle_tapo_found /
\* _handle_tuya_found up to the registry.add_device call
IoTManagerApp_handle_found(a, t, device) ==
    EnterRegistry(a, t, "add_device", Some(device), device.device_id)

\* IoTManagerApp._handle_device_lost up to its registry.remove_device call
IoTManagerApp_handle_device_lost(a, t, device_id) ==
    EnterRegistry(a, t, "remove_device", None, device_id)

\* DiscoveryService._handle_mdns_discovered: only a new name reaches the callbacks
DiscoveryService_handle_mdns_discovered(a, name, hint) ==
    LET device_id == <<"mdns", name>>
        seen == [a EXCEPT !._discovered = @ \cup {device_id}]
    IN  IF device_id \notin a._discovered
        THEN IoTManagerApp_handle_device_discovered(seen, "mdns", device_id, hint)
        ELSE seen

\* DiscoveryService._handle_device_removed: only a known name reaches the callbacks
DiscoveryService_handle_device_removed(a, name) ==
    LET device_id == <<"mdns", name>>
    IN  IF device_id \in a._discovered
        THEN IoTManagerApp_handle_device_lost(
                 [a EXCEPT !._discovered = @ \ {device_id}], "mdns", device_id)
        ELSE a

\* ChromecastManager._on_cast_found and WizManager._handle_bulb_found: a device the
\* manager does not know yet is created, remembered and handed to the application
Manager_on_found(a, t, source, name) ==
    IF <<source, name>> \in a.managers THEN a
    ELSE IoTManagerApp_handle_found(
             [a EXCEPT !.managers = @ \cup {<<source, name>>}], t,
             AppDevice(source, name, NewInst(a, <<source, name>>), ""))

\* ChromecastManager._on_cast_removed: the manager forgets the device and tells
\* nobody
ChromecastManager_on_cast_removed(a, name) ==
    [a EXCEPT !.managers = @ \ {<<"chromecast", name>>}]

(* SpecApp *)

notApp ==
    <<devVars, busVars, bridgeVars, _on_device_added, _on_device_removed,
      _on_device_updated, rlast, vol, svc>>

\* every optional library installed and every vendor configured
InitApp == app = IoTManagerApp(TRUE, TRUE) /\ vol = NoTimers /\ svc = Services

Idle(t) == app.inside[t] = None

mdns_discovered ==
    /\ Idle("mdns")
    /\ \E name \in Names, hint \in Hints :
           app' = DiscoveryService_handle_mdns_discovered(app, name, hint)
    /\ UNCHANGED <<_devices, notApp>>

mdns_removed ==
    /\ Idle("mdns")
    /\ \E name \in Names : app' = DiscoveryService_handle_device_removed(app, name)
    /\ UNCHANGED <<_devices, notApp>>

cast_found ==
    /\ app._chromecast_manager
    /\ Idle("cast")
    /\ \E name \in Names : app' = Manager_on_found(app, "cast", "chromecast", name)
    /\ UNCHANGED <<_devices, notApp>>

cast_removed ==
    /\ app._chromecast_manager
    /\ Idle("cast")
    /\ \E name \in Names : app' = ChromecastManager_on_cast_removed(app, name)
    /\ UNCHANGED <<_devices, notApp>>

bulb_found ==
    /\ Idle("worker")
    /\ \E name \in Names : app' = Manager_on_found(app, "worker", "wiz", name)
    /\ UNCHANGED <<_devices, notApp>>

\* thread t runs the registry method it called, and the handler then posts the GUI
\* update with window.after(0, ...) and returns
registry_write ==
    \E t \in AppThreads :
        /\ ~Idle(t)
        /\ Len(app.after) < MaxAfter
        /\ LET c == app.inside[t][1]
               res == IF c.op = "add_device"
                      THEN DeviceRegistry_add_device(Registry, c.device[1])
                      ELSE DeviceRegistry_remove_device(Registry, c.device_id)
           IN  /\ _devices' = res.reg._devices
               /\ app' = [app EXCEPT
                      !.inside[t] = None,
                      !.after = Append(@, [fn |-> IF c.op = "add_device"
                                                  THEN "_add_device_to_gui"
                                                  ELSE "window.remove_device",
                                           device_id |-> c.device_id,
                                           inst |-> IF c.op = "add_device"
                                                    THEN c.device[1].inst ELSE 0]),
                      !.last = [op |-> c.op, thread |-> t,
                                device_id |-> Some(c.device_id)]]
        /\ UNCHANGED notApp

\* DeviceList.add_device(device): the id gets a card for the device, and a card
\* the id already has is set to the device given (update_device)
DeviceList_add_device(cards, device_id, inst) ==
    {c \in cards : c[1] # device_id} \cup {<<device_id, inst>>}

\* DeviceList.remove_device(device_id): the card of the id, if any, is destroyed
DeviceList_remove_device(cards, device_id) == {c \in cards : c[1] # device_id}

\* the UI thread runs the oldest posted callback: the window shows or drops the device
mainloop_after ==
    /\ app.after # <<>>
    /\ app' = [app EXCEPT
           !.after = Tail(@),
           !.window = IF app.after[1].fn = "_add_device_to_gui"
                      THEN DeviceList_add_device(@, app.after[1].device_id,
                                                 app.after[1].inst)
                      ELSE DeviceList_remove_device(@, app.after[1].device_id)]
    /\ UNCHANGED <<_devices, notApp>>

\* a refresh that evicts the unreachable device from the registry
refresh_failed_Evicts ==
    \E i \in 1..Len(_devices) :
        /\ _devices[i].value.is_online
        /\ _devices' = DictDel(_devices, _devices[i].key)
        /\ app' = [app EXCEPT !.last = [op |-> "refresh_state", thread |-> "worker",
                                        device_id |-> Some(_devices[i].key)]]
        /\ UNCHANGED notApp

\* a refresh_state of a registered device, run on the bridge worker, hits a
\* transport failure: the object the registry holds goes offline in place
refresh_failed ==
    \E i \in 1..Len(_devices) :
        /\ _devices[i].value.is_online
        /\ _devices' = DictSet(_devices, _devices[i].key,
                               [_devices[i].value EXCEPT !.is_online = FALSE])
        /\ app' = [app EXCEPT !.last = [op |-> "refresh_state", thread |-> "worker",
                                        device_id |-> Some(_devices[i].key)]]
        /\ UNCHANGED notApp

NextApp ==
    \/ mdns_discovered
    \/ mdns_removed
    \/ cast_found
    \/ cast_removed
    \/ bulb_found
    \/ registry_write
    \/ mainloop_after
    \/ refresh_failed

----------------------------------------------------------------------------
(* SpecDiscovery: one DiscoveryService, its caller and the zeroconf thread *)

notServices == <<devVars, regVars, busVars, bridgeVars, app, vol>>

\* one more call or event of a component
ComponentCall(who, op, component, ret, attempted) ==
    /\ svc' = [svc EXCEPT ![who] = component, !.events = @ + 1,
                          !.called = @ \cup {op},
                          !.succeeded[who] = IF op = "stop" THEN FALSE
                                             ELSE IF attempted THEN ret ELSE @,
                          !.last = [who |-> who, op |-> op, ret |-> ret,
                                    attempted |-> attempted,
                                    was_running |-> svc[who]._running]]
    /\ UNCHANGED notServices

ServiceCall(op, service, ret, attempted) ==
    ComponentCall("discovery", op, service, ret, attempted)

discovery_start ==
    /\ svc.events < MaxEvents
    /\ \E raises \in {"none", "Zeroconf", "ServiceBrowser"} :
           LET r == DiscoveryService_start(svc.discovery, raises)
           IN  ServiceCall("start", r.component, r.ret, r.attempted)

discovery_stop ==
    /\ svc.events < MaxEvents
    /\ ServiceCall("stop", DiscoveryService_stop(svc.discovery), TRUE, FALSE)

\* MDNSListener.add_service with the service info resolved
mdns_add_service ==
    /\ svc.events < MaxEvents
    /\ svc.discovery._mdns.browsing
    /\ \E name \in ServiceNames :
           ServiceCall("add_service",
                       DiscoveryService_mdns_discovered(svc.discovery, name), TRUE, FALSE)

\* MDNSListener.update_service with the service info resolved
mdns_update_service ==
    /\ svc.events < MaxEvents
    /\ svc.discovery._mdns.browsing
    /\ \E name \in ServiceNames :
           ServiceCall("update_service",
                       DiscoveryService_mdns_discovered(svc.discovery, name), TRUE, FALSE)

\* MDNSListener.remove_service
mdns_remove_service ==
    /\ svc.events < MaxEvents
    /\ svc.discovery._mdns.browsing
    /\ \E name \in ServiceNames :
           ServiceCall("remove_service",
                       DiscoveryService_device_removed(svc.discovery, name), TRUE, FALSE)

add_manual_device ==
    /\ svc.events < MaxEvents
    /\ \E id \in ManualIds :
           ServiceCall("add_manual_device",
                       DiscoveryService_add_manual_device(svc.discovery, id), TRUE, FALSE)

discovery_clear ==
    /\ svc.events < MaxEvents
    /\ ServiceCall("clear", DiscoveryService_clear(svc.discovery), TRUE, FALSE)

wiz_start ==
    /\ svc.events < MaxEvents
    /\ \E raises \in BOOLEAN :
           LET r == WizManager_start(svc.wiz, raises)
           IN  ComponentCall("wiz", "start", r.component, r.ret, r.attempted)

tapo_start ==
    /\ svc.events < MaxEvents
    /\ \E raises \in BOOLEAN :
           LET r == TapoManager_start(svc.tapo, raises)
           IN  ComponentCall("tapo", "start", r.component, r.ret, r.attempted)

chromecast_start ==
    /\ svc.events < MaxEvents
    /\ \E raises \in BOOLEAN :
           LET r == ChromecastManager_start(svc.chromecast, raises)
           IN  ComponentCall("chromecast", "start", r.component, r.ret, r.attempted)

\* stop() of the WiZ, Tapo or Chromecast manager
manager_stop ==
    /\ svc.events < MaxEvents
    /\ \E who \in {"wiz", "tapo", "chromecast"} :
           ComponentCall(who, "stop", Manager_stop(svc[who]), TRUE, FALSE)

----------------------------------------------------------------------------
(* app.py: IoTManagerApp.run's starts and _cleanup, over the bridge *)

\* the components whose stop() _cleanup hands to the bridge, in that order
Shutdown == <<"wiz", "tapo", "tuya", "discovery">>

\* start() of a component as run() calls it
StartOf(who, raises) ==
    CASE who = "wiz" -> WizManager_start(svc.wiz, raises)
      [] who = "tapo" -> TapoManager_start(svc.tapo, raises)
      [] who = "tuya" -> TuyaLightManager_start(svc.tuya)
      [] who = "discovery" ->
             DiscoveryService_start(svc.discovery, IF raises THEN "Zeroconf" ELSE "none")

\* stop() of a component, as the coroutine the worker runs
StopOf(who) ==
    IF who = "discovery" THEN DiscoveryService_stop(svc.discovery)
    ELSE Manager_stop(svc[who])

\* run(): async_bridge.start()
app_run ==
    /\ ~svc.cleanup
    /\ bridge_start

\* run(): the start() coroutines of the discovery service and the managers,
\* run by the worker of a bridge that is running
app_run_starts ==
    /\ ~svc.cleanup
    /\ pc = "idle"
    /\ is_running(Bridge)
    /\ svc.events < MaxEvents
    /\ \E who \in {Shutdown[k] : k \in 1..Len(Shutdown)}, raises \in BOOLEAN :
           LET r == StartOf(who, raises)
           IN  ComponentCall(who, "start", r.component, r.ret, r.attempted)

\* _cleanup() up to the join inside async_bridge.stop(): the Chromecast manager is
\* stopped on a thread of its own, the stop() coroutines of the other components
\* are handed to run_async without callbacks and their futures are dropped, then
\* async_bridge.stop() asks the loop to stop
IoTManagerApp_cleanup ==
    /\ ~svc.cleanup
    /\ pc = "idle"
    /\ LET op == Submit(Bridge, Coroutine("run_async", FALSE, FALSE, FALSE))
       IN  ops' = ops \o [k \in 1..Len(Shutdown) |->
                              [op EXCEPT !.was_running = is_running(Bridge)]]
    /\ SetBridge(AsyncBridge_stop(Bridge))
    /\ pc' = IF _running /\ _thread # None /\ workers[_thread[1]] # "closed"
             THEN "join" ELSE "idle"
    /\ klast' = [op |-> "stop", pre |-> Bridge, joined |-> FALSE]
    /\ svc' = [svc EXCEPT !.cleanup = TRUE,
                          !.chromecast = Manager_stop(@),
                          !.stopping = [c \in Components |->
                                           IF \E k \in 1..Len(Shutdown) : Shutdown[k] = c
                                           THEN Len(ops) + CHOOSE k \in 1..Len(Shutdown) :
                                                               Shutdown[k] = c
                                           ELSE 0]]
    /\ UNCHANGED <<gui_queue, devVars, regVars, busVars, app, vol>>

\* the worker runs the stop() coroutine of a component to its end; a worker
\* asked to stop still runs what was queued before the request
run_loop_stops ==
    \E who \in {Shutdown[k] : k \in 1..Len(Shutdown)} :
        LET i == svc.stopping[who]
        IN  /\ i > 0
            /\ ops[i].state = "pending"
            /\ workers[ops[i].loop[1]] \in {"run_forever", "stopping"}
            /\ ops' = [ops EXCEPT ![i].state = "done"]
            /\ svc' = [svc EXCEPT ![who] = StopOf(who)]
            /\ UNCHANGED <<_loop, _thread, _running, workers, pc, gui_queue, klast,
                           devVars, regVars, busVars, app, vol>>

NextCleanup ==
    \/ app_run
    \/ app_run_starts
    \/ IoTManagerApp_cleanup
    \/ bridge_stop_join
    \/ run_loop_stops
    \/ run_loop_close

\* the events zeroconf delivers
NextMdns ==
    \/ mdns_add_service
    \/ mdns_update_service
    \/ mdns_remove_service

\* start() and stop() of the managers and of the discovery service
NextLifecycle ==
    \/ wiz_start
    \/ tapo_start
    \/ chromecast_start
    \/ manager_stop
    \/ discovery_start
    \/ discovery_stop

NextDiscovery ==
    \/ discovery_start
    \/ discovery_stop
    \/ NextMdns
    \/ add_manual_device
    \/ discovery_clear

----------------------------------------------------------------------------
(* The specifications *)

Init == InitDev /\ InitReg /\ InitBus /\ InitBridge /\ InitApp

\* one device object, any sequence of calls on it
SpecDev == Init /\ [][NextDev]_vars

InitNotify == Init /\ dev \in HandedOver
SpecNotify == InitNotify /\ [][NextNotify]_vars

\* one registry, any sequence of calls on it (the device object stays as built)
InitRegOnly == Init /\ dev = TuyaLightDevice

SpecReg == InitRegOnly /\ [][NextReg]_vars

\* one event bus, any sequence of calls on it
SpecBus == InitRegOnly /\ [][NextBus]_vars

\* one bridge, its client, its workers and the UI thread in any interleaving
SpecBridge == InitRegOnly /\ [][NextBridge]_vars

\* the application on any installation: pychromecast installed or not, Tuya
\* devices configured or not
InitAppOnly ==
    /\ InitDev /\ dev = TuyaLightDevice
    /\ InitReg /\ InitBus /\ InitBridge
    /\ app \in {IoTManagerApp(c, t) : c \in BOOLEAN, t \in BOOLEAN}
    /\ vol = NoTimers
    /\ svc = Services

SpecApp == InitAppOnly /\ [][NextApp]_vars

SpecCallbacks == InitRegOnly /\ [][NextCallbacks]_vars

\* the bridge used through run_async alone, with its threads scheduled fairly:
\* the worker thread keeps running what is queued on its loop, and the client
\* thread that is inside run_async goes on to its add_done_callback
SpecBridgeFair ==
    /\ InitRegOnly /\ [][NextRunAsync]_vars
    /\ WF_vars(run_loop_complete)
    /\ WF_vars(add_done_callback)

\* one registry whose callbacks may call back into it
SpecReentry == InitRegOnly /\ [][NextReentry]_vars

\* a connected Chromecast as ChromecastManager hands it over
SpecDiscovery == InitRegOnly /\ [][NextDiscovery]_vars

\* the managers and the discovery service, with and without Tapo credentials
InitLifecycle ==
    /\ InitDev /\ dev = TuyaLightDevice
    /\ InitReg /\ InitBus /\ InitBridge
    /\ app = IoTManagerApp(TRUE, TRUE)
    /\ vol = NoTimers
    /\ svc \in {[Services EXCEPT !.tapo = TapoManager(c)] : c \in BOOLEAN}

SpecLifecycle == InitLifecycle /\ [][NextLifecycle]_vars

SpecCleanup == InitRegOnly /\ [][NextCleanup]_vars

InitVolume == Init /\ dev \in {ChromecastDevice(TRUE, st) : st \in CastStatuses}
SpecVolume == InitVolume /\ [][NextVolume]_vars

----------------------------------------------------------------------------
(* Claims about the device contract, checked under SpecDev *)

\* the operations BaseDevice gates by a capability, and the capability of each
GatedOps ==
    {"turn_on", "turn_off", "set_brightness", "set_color_temp", "set_rgb",
     "set_volume", "play", "pause", "stop", "seek", "seek_relative"}

GateOf(op) ==
    CASE op \in {"turn_on", "turn_off"} -> "ON_OFF"
      [] op = "set_brightness" -> "BRIGHTNESS"
      [] op = "set_color_temp" -> "COLOR_TEMP"
      [] op = "set_rgb" -> "RGB_COLOR"
      [] op = "set_volume" -> "VOLUME"
      [] op \in {"play", "pause", "stop"} -> "PLAYBACK"
      [] OTHER -> "SEEK"

\* C1: a gated operation called on a device that lacks the operation's capability
\* raises the unsupported-capability error (NotImplementedError), whatever its
\* argument, without any transport call, and leaves DeviceState unchanged.
C1_UnsupportedCapabilityFails ==
    (last.op \in GatedOps /\ ~has_capability(last.pre, GateOf(last.op)))
        => /\ last.ret = "NotImplementedError"
           /\ last.calls = 0
           /\ dev._state = last.pre._state

\* C1 holds of every class but TapoDevice: the only gated call that gets past a
\* missing capability is set_rgb on a TapoDevice whose _supports_color is false.
C1_OnlyTapoSetRgbEscapes ==
    (last.op \in GatedOps /\ ~has_capability(last.pre, GateOf(last.op))
     /\ ~(last.pre.cls = "TapoDevice" /\ last.op = "set_rgb"))
        => /\ last.ret = "NotImplementedError"
           /\ last.calls = 0
           /\ dev._state = last.pre._state

\* C3: set_brightness (set_volume) with a level outside 0..100 on a device that has
\* BRIGHTNESS (VOLUME) raises the invalid-argument error (ValueError) with no
\* transport call and DeviceState unchanged.
C3_OutOfRangeLevelRejected ==
    (/\ last.op \in {"set_brightness", "set_volume"}
     /\ has_capability(last.pre, GateOf(last.op))
     /\ ~(0 <= last.args[1] /\ last.args[1] <= 100))
        => /\ last.ret = "ValueError"
           /\ last.calls = 0
           /\ dev._state = last.pre._state

\* the classes that keep C3: those that inherit BaseDevice.set_brightness or
\* set_volume, and TuyaDevice, which repeats the checks in its override
C3_HoldsWhereBaseChecksRun ==
    (/\ last.op \in {"set_brightness", "set_volume"}
     /\ has_capability(last.pre, GateOf(last.op))
     /\ ~(0 <= last.args[1] /\ last.args[1] <= 100)
     /\ last.pre.cls \in {"TuyaDevice", "DiscoveredDeviceAdapter"})
        => /\ last.ret = "ValueError"
           /\ last.calls = 0
           /\ dev._state = last.pre._state

PercentOrNone(x) == x = None \/ (0 <= x[1] /\ x[1] <= 100)

\* C4: in every reachable state DeviceState.brightness and DeviceState.volume are
\* None or an integer in 0..100.
C4_PercentagesInRange ==
    PercentOrNone(dev._state.brightness) /\ PercentOrNone(dev._state.volume)

\* the paths that read the value from the device do keep it in range; only the
\* setters (set_brightness, and _send_volume for set_volume) can store a level
\* outside 0..100
C4_OnlySettersStoreOutOfRange ==
    [][(C4_PercentagesInRange /\ ~C4_PercentagesInRange')
           => last'.op \in {"set_brightness", "_send_volume"}]_vars

----------------------------------------------------------------------------
(* Claims about the DeviceRegistry, checked under SpecReg *)

\* the invocations of every callback of a list, in list order, with one argument
AllInvoked(callbacks, device, device_id) ==
    [i \in 1..Len(callbacks) |-> Invocation(callbacks[i], device, device_id)]

\* C2: the registry holds at most one device per device_id; add_device returns
\* true iff the id was not present; on a present id it returns false, leaves the
\* registry as it was (the first instance stays the stored one) and fires no
\* 'added' callback.
C2_AddDeviceOncePerId ==
    /\ \A i, j \in 1..Len(_devices) : _devices[i].key = _devices[j].key => i = j
    /\ \A i \in 1..Len(_devices) : _devices[i].value.device_id = _devices[i].key
    /\ rlast.op = "add_device" =>
           LET d == rlast.device[1]
               present == DictHas(rlast.pre._devices, d.device_id)
           IN  /\ rlast.ret_bool = Some(~present)
               /\ present => /\ _devices = rlast.pre._devices
                             /\ Len(_devices) = Len(rlast.pre._devices)
                             /\ rlast.fired = <<>>
               /\ ~present => DictGet(_devices, d.device_id) = Some(d)

\* a second add_device with a present id and another device object was refused
C2_Witness ==
    /\ rlast.op = "add_device"
    /\ rlast.ret_bool = Some(FALSE)
    /\ DictGet(_devices, rlast.device[1].device_id) # rlast.device
    /\ _on_device_added # <<>>

\* C5: a successful add_device(d) invokes every 'added' callback registered at
\* that time once per registration, before it returns, in registration order, each
\* with the device d.
C5_AddedCallbacksInOrder ==
    (rlast.op = "add_device" /\ rlast.ret_bool = Some(TRUE))
        => rlast.fired = AllInvoked(rlast.pre._on_device_added, rlast.device, None)

\* add_device succeeded with two different 'added' callbacks registered
C5_Witness ==
    /\ rlast.op = "add_device"
    /\ rlast.ret_bool = Some(TRUE)
    /\ Len(rlast.fired) = 2
    /\ rlast.fired[1].cb # rlast.fired[2].cb

\* the callbacks a call of add_device, remove_device or update_device notifies
NotifiedList(call) ==
    CASE call.op = "add_device" -> call.pre._on_device_added
      [] call.op = "remove_device" -> call.pre._on_device_removed
      [] OTHER -> call.pre._on_device_updated

\* the call found what it needs to notify: a new id (add), a registered id
\* (remove, update)
Notifies(call) ==
    CASE call.op = "add_device" ->
             ~DictHas(call.pre._devices, call.device[1].device_id)
      [] call.op = "remove_device" -> DictHas(call.pre._devices, call.device_id[1])
      [] call.op = "update_device" ->
             DictHas(call.pre._devices, call.device[1].device_id)
      [] OTHER -> FALSE

\* C6: when a callback raises during add_device, remove_device or update_device,
\* no exception reaches the caller, every later-registered callback of the kind is
\* still invoked, the mutation stands and the call returns its normal result.
C6_CallbackExceptionIsolated ==
    (Notifies(rlast) /\ \E i \in 1..Len(NotifiedList(rlast)) : Raises(NotifiedList(rlast)[i]))
        => /\ ~rlast.raised
           /\ Len(rlast.fired) = Len(NotifiedList(rlast))
           /\ \A i \in 1..Len(rlast.fired) : rlast.fired[i].cb = NotifiedList(rlast)[i]
           /\ rlast.op = "add_device" =>
                  /\ rlast.ret_bool = Some(TRUE)
                  /\ DictGet(_devices, rlast.device[1].device_id) = rlast.device
           /\ rlast.op = "remove_device" =>
                  /\ rlast.ret_device = DictGet(rlast.pre._devices, rlast.device_id[1])
                  /\ ~DictHas(_devices, rlast.device_id[1])
           /\ rlast.op = "update_device" => _devices = rlast.pre._devices

\* a raising callback was invoked before a later-registered one, in remove_device
C6_Witness ==
    /\ rlast.op = "remove_device"
    /\ Len(rlast.fired) = 2
    /\ Raises(rlast.fired[1].cb)
    /\ ~Raises(rlast.fired[2].cb)

\* C7: remove_device(id) on a registered id removes the entry, returns the stored
\* device and invokes every 'removed' callback once, in registration order, with
\* the id (not the device); on an unregistered id it returns None, fires nothing
\* and leaves the registry unchanged.
C7_RemoveDevice ==
    rlast.op = "remove_device" =>
        LET id == rlast.device_id[1]
            stored == DictGet(rlast.pre._devices, id)
        IN  /\ rlast.ret_device = stored
            /\ ~rlast.raised
            /\ stored # None =>
                   /\ _devices = DictDel(rlast.pre._devices, id)
                   /\ Len(_devices) = Len(rlast.pre._devices) - 1
                   /\ rlast.fired = AllInvoked(rlast.pre._on_device_removed, None, Some(id))
            /\ stored = None =>
                   /\ rlast.fired = <<>>
                   /\ Registry = rlast.pre

\* a registered device was removed with two 'removed' callbacks registered and
\* another device left in the registry
C7_Witness ==
    /\ rlast.op = "remove_device"
    /\ rlast.ret_device # None
    /\ Len(rlast.fired) = 2
    /\ Len(_devices) = 1

\* C8: update_device(d) never changes the id-to-device mapping, and it invokes the
\* 'updated' callbacks (each once, with d) iff d.device_id is registered.
C8_UpdateDeviceOnlyNotifies ==
    rlast.op = "update_device" =>
        /\ _devices = rlast.pre._devices
        /\ Registry = rlast.pre
        /\ rlast.fired =
               IF DictHas(rlast.pre._devices, rlast.device[1].device_id)
               THEN AllInvoked(rlast.pre._on_device_updated, rlast.device, None)
               ELSE <<>>

\* update_device was called for an unregistered id while an 'updated' callback
\* was registered and another device was in the registry
C8_Witness ==
    /\ rlast.op = "update_device"
    /\ ~DictHas(_devices, rlast.device[1].device_id)
    /\ _on_device_updated # <<>>
    /\ _devices # <<>>

\* update_device was called with another object of a registered id: the
\* callbacks got the passed object and the stored one stayed
C8_WitnessRegistered ==
    /\ rlast.op = "update_device"
    /\ rlast.fired # <<>>
    /\ DictGet(_devices, rlast.device[1].device_id) # rlast.device

QueryOps == {"devices", "get_device", "get_devices_by_type", "get_online_devices"}

\* C9: the queries never change the registry, and mutating a collection they
\* returned leaves the registry's ids, its device_count and what later queries
\* return unchanged.
C9_QueriesReturnSnapshots ==
    rlast.op \in QueryOps \cup {"mutate_returned"} =>
        /\ Registry = rlast.pre
        /\ rlast.fired = <<>>
        /\ DictKeys(_devices) = DictKeys(rlast.pre._devices)
        /\ DeviceRegistry_device_count(Registry) = DeviceRegistry_device_count(rlast.pre)
        /\ DeviceRegistry_devices(Registry).ret_list
               = DeviceRegistry_devices(rlast.pre).ret_list

\* the caller has mutated a list a query returned while devices were registered
C9_Witness ==
    /\ rlast.op = "mutate_returned"
    /\ Len(_devices) = 2

\* the removal notifications clear() owes: for each registered device, in dict
\* order, every 'removed' callback in registration order with the device's id
RECURSIVE RemovalsOf(_, _)
RemovalsOf(ids, callbacks) ==
    IF ids = <<>> THEN <<>>
    ELSE AllInvoked(callbacks, None, Some(Head(ids))) \o RemovalsOf(Tail(ids), callbacks)

\* C10: clear() removes the devices one at a time: for every device registered at
\* the call each 'removed' callback is invoked exactly once with that device's id.
C10_ClearNotifiesEachRemoval ==
    rlast.op = "clear" =>
        /\ rlast.fired = RemovalsOf(DictKeys(rlast.pre._devices),
                                    rlast.pre._on_device_removed)
        /\ Len(rlast.fired) = Len(rlast.pre._devices) * Len(rlast.pre._on_device_removed)
        /\ \A id \in DeviceIds, i \in 1..Len(rlast.pre._on_device_removed) :
               Cardinality({k \in 1..Len(rlast.fired) :
                               /\ rlast.fired[k].device_id = Some(id)
                               /\ k % Len(rlast.pre._on_device_removed)
                                      = i % Len(rlast.pre._on_device_removed)})
                   = IF DictHas(rlast.pre._devices, id) THEN 1 ELSE 0

\* clear() ran on two registered devices with a 'removed' callback registered
C10_Witness ==
    /\ rlast.op = "clear"
    /\ Len(rlast.pre._devices) = 2
    /\ rlast.pre._on_device_removed # <<>>
    /\ Len(rlast.fired) >= 2

----------------------------------------------------------------------------
(* Claims about the EventBus, checked under SpecBus *)

\* how many times callback cb was invoked
Count(cb, fired) == Cardinality({k \in 1..Len(fired) : fired[k] = cb})

\* the handlers that call subscribe or unsubscribe from inside publish
Reentrant(cb) == cb \in {"h_once", "h_once_raise", "h_resub"}

\* C11: subscribing a callback that is already subscribed to the type leaves the
\* subscriber lists unchanged, and a publish of the type that follows it invokes
\* that callback exactly once.
C11_RepeatedSubscribeOnePublish ==
    [][/\ (blast.op = "subscribe"
             /\ ListHas(SubscribersOf(blast.pre, blast.event_type), blast.callback))
          => SubscribersOf(_subscribers, blast.event_type)
                 = SubscribersOf(blast.pre, blast.event_type)
       /\ (blast.op = "subscribe"
             /\ ListHas(SubscribersOf(blast.pre, blast.event_type), blast.callback)
             /\ blast'.op = "publish" /\ blast'.event_type = blast.event_type)
          => Count(blast.callback, blast'.fired) = 1]_vars

\* what holds of C11: no list ever holds a callback twice, and a repeated
\* subscribe changes no list
C11_SubscribeIdempotent ==
    /\ \A t \in EventTypes, cb \in Handlers :
           Count(cb, SubscribersOf(_subscribers, t)) <= 1
    /\ (blast.op = "subscribe"
          /\ ListHas(SubscribersOf(blast.pre, blast.event_type), blast.callback))
       => _subscribers = blast.pre

\* C12: publish(event) invokes exactly the subscribers registered for event.type,
\* in subscription order, before it returns; with no subscriber it invokes
\* nothing, raises nothing and changes no bus state.
C12_PublishInvokesAllInOrder ==
    blast.op = "publish" =>
        /\ blast.fired = SubscribersOf(blast.pre, blast.event_type)
        /\ ~blast.raised
        /\ SubscribersOf(blast.pre, blast.event_type) = <<>> => _subscribers = blast.pre

\* what holds of C12: the same, for a publish none of whose subscribers calls
\* subscribe or unsubscribe while it runs
C12_HoldsWithoutReentry ==
    (blast.op = "publish"
       /\ \A i \in 1..Len(SubscribersOf(blast.pre, blast.event_type)) :
              ~Reentrant(SubscribersOf(blast.pre, blast.event_type)[i]))
        => /\ blast.fired = SubscribersOf(blast.pre, blast.event_type)
           /\ ~blast.raised
           /\ _subscribers = blast.pre

\* C13: when a subscriber raises during publish, the exception does not escape
\* and every subscriber registered after it for the type is still invoked in the
\* same publish call.
C13_SubscriberExceptionIsolated ==
    blast.op = "publish" =>
        LET lst == SubscribersOf(blast.pre, blast.event_type)
        IN  \A i \in 1..Len(lst) :
                (HandlerRaises(lst[i]) /\ ListHas(blast.fired, lst[i]))
                    => /\ ~blast.raised
                       /\ \A j \in (i + 1)..Len(lst) : ListHas(blast.fired, lst[j])

\* C14: within one publish call every callback is invoked at most once, whatever
\* subscribe and unsubscribe calls were made before it or by subscribers while it
\* runs; subscribe and unsubscribe deliver nothing (no replay of earlier events).
C14_AtMostOncePerPublish ==
    /\ blast.op = "publish" => \A cb \in Handlers : Count(cb, blast.fired) <= 1
    /\ blast.op \in {"subscribe", "unsubscribe"} => blast.fired = <<>>

\* C15: unsubscribe of a callback that is not subscribed to the type raises
\* nothing and changes no subscriber list; unsubscribe of a subscribed callback
\* removes that callback from that type only, keeping the order of the others.
C15_UnsubscribeBestEffort ==
    blast.op = "unsubscribe" =>
        LET before == SubscribersOf(blast.pre, blast.event_type)
        IN  /\ ~blast.raised
            /\ blast.fired = <<>>
            /\ ~ListHas(before, blast.callback) => _subscribers = blast.pre
            /\ ListHas(before, blast.callback) =>
                   SubscribersOf(_subscribers, blast.event_type)
                       = SelectSeq(before, LAMBDA cb : cb # blast.callback)
            /\ \A t \in EventTypes \ {blast.event_type} :
                   SubscribersOf(_subscribers, t) = SubscribersOf(blast.pre, t)
            /\ DictKeys(_subscribers) = DictKeys(blast.pre)

\* the first of two subscribers of a type was unsubscribed while the same
\* callback stayed subscribed to another type
C15_Witness ==
    /\ blast.op = "unsubscribe"
    /\ Len(SubscribersOf(blast.pre, blast.event_type)) = 2
    /\ SubscribersOf(blast.pre, blast.event_type)[1] = blast.callback
    /\ Len(SubscribersOf(_subscribers, blast.event_type)) = 1
    /\ \E t \in EventTypes \ {blast.event_type} :
           ListHas(SubscribersOf(_subscribers, t), blast.callback)

\* unsubscribe was called for a type that never had a subscriber, with other
\* subscriptions in place
C15_WitnessMissing ==
    /\ blast.op = "unsubscribe"
    /\ ~DictHas(blast.pre, blast.event_type)
    /\ _subscribers # <<>>

----------------------------------------------------------------------------
(* Claims about the AsyncBridge, checked under SpecBridge *)

\* C16: a coroutine handed to run_async or run_async_with_gui_callback while the
\* bridge is not running gets None back, is never executed, and neither of its
\* callbacks is ever invoked or handed to the UI.
C16_NotRunningReturnsNone ==
    \A i \in 1..Len(ops) :
        ~ops[i].was_running =>
            /\ ops[i].ret = "None"
            /\ ops[i].loop = None
            /\ ops[i].state = "new"
            /\ ops[i].handler = "none"
            /\ ops[i].body = None
            /\ \A k \in 1..Len(gui_queue) : gui_queue[k].op # i

\* a coroutine with callbacks was refused after stop() had returned while the
\* worker of the stopped loop was still alive
C16_Witness ==
    /\ ops # <<>>
    /\ ~ops[Len(ops)].was_running
    /\ ops[Len(ops)].callback
    /\ _loop # None
    /\ pc = "idle"
    /\ workers[_loop[1]] = "stopping"

\* C17: start() on a stopped bridge makes it running with one new loop and
\* worker; start() on a running bridge changes nothing; stop() on a stopped
\* bridge changes nothing; once stop() has cleared the flag, and when it returns,
\* is_running is false whether or not the worker exited within the join.
C17_StoppedRunningStopped ==
    /\ _running => _loop # None /\ _thread = _loop
    /\ is_running(Bridge) => workers[_loop[1]] = "run_forever"
    /\ (klast.op = "start" /\ klast.pre._running) =>
           /\ is_running(Bridge)
           /\ _loop = klast.pre._loop
           /\ _thread = klast.pre._thread
           /\ Len(workers) = Len(klast.pre.workers)
    /\ (klast.op = "start" /\ ~klast.pre._running) =>
           /\ is_running(Bridge)
           /\ _loop = Some(Len(klast.pre.workers) + 1)
           /\ _thread = _loop
           /\ Len(workers) = Len(klast.pre.workers) + 1
    /\ (klast.op = "stop" /\ ~klast.pre._running) =>
           /\ pc = "idle"
           /\ ~is_running(Bridge)
           /\ _loop = klast.pre._loop
           /\ _thread = klast.pre._thread
           /\ Len(workers) = Len(klast.pre.workers)
    /\ (klast.op = "stop" /\ klast.pre._running) =>
           /\ ~is_running(Bridge)
           /\ _loop = klast.pre._loop

\* stop() returned from a join that timed out: the bridge is stopped and the
\* worker is still inside its loop
C17_Witness ==
    /\ klast.op = "stop"
    /\ klast.pre._running
    /\ pc = "idle"
    /\ ~klast.joined
    /\ workers[_thread[1]] = "stopping"
    /\ ~is_running(Bridge)

\* the bridge was started again after a stop: a second loop and worker
C17_WitnessRestart ==
    /\ klast.op = "start"
    /\ ~klast.pre._running
    /\ _loop = Some(2)

\* C18: a success or error callback given to run_async is executed on the
\* bridge's loop thread, never on the thread that called run_async.
C18_CallbackOnLoopThread ==
    \A i \in 1..Len(ops) :
        (ops[i].api = "run_async" /\ ops[i].body # None)
            => ops[i].body[1].thread = "loop"

C19_WitnessError ==
    \E i \in 1..Len(ops) :
        /\ ops[i].api = "run_async_with_gui_callback"
        /\ ops[i].fails
        /\ ops[i].drained = "NameError"

\* C20 as stated: stop() cancels nothing, and once stop() has returned no callback
\* of a coroutine submitted before it is invoked any more.
C20_NoCallbackAfterStopReturned ==
    \A i \in 1..Len(ops) : ops[i].body # None => ~ops[i].body[1].late

\* C20 as amended: stop() cancels nothing (no step of stop() changes a
\* coroutine), and a coroutine that is still pending when the worker has left the
\* loop stays pending for ever with neither of its callbacks invoked.
C20_PendingDroppedOnceLoopClosed ==
    [][/\ ((_running /\ ~_running') \/ (pc = "join" /\ pc' = "idle")) => ops' = ops
       /\ \A i \in 1..Len(ops) :
              (ops[i].state = "pending" /\ workers[ops[i].loop[1]] = "closed")
                  => /\ ops'[i].state = "pending"
                     /\ ops'[i].body = None
                     /\ ops'[i].handler = ops[i].handler
                     /\ \A k \in 1..Len(gui_queue') : gui_queue'[k].op # i]_vars

\* a coroutine with callbacks attached is pending on a loop whose worker has left
\* it, after stop() returned
C20_Witness ==
    \E i \in 1..Len(ops) :
        /\ ops[i].state = "pending"
        /\ ops[i].handler = "attached"
        /\ ops[i].callback /\ ops[i].error_callback
        /\ workers[ops[i].loop[1]] = "closed"
        /\ StopReturned(ops[i].loop[1])

----------------------------------------------------------------------------
(* Claims about the devices' power, control, refresh and session operations *)

C21_WitnessChromecast ==
    /\ last.op = "toggle"
    /\ last.pre.cls = "ChromecastDevice"
    /\ last.pre._state.is_on = Some(TRUE)
    /\ last.args = <<"E8C28D3C">>
    /\ last.attempted = <<>>

\* the control operations of a device
ControlOps ==
    {"turn_on", "turn_off", "set_brightness", "set_rgb", "set_color_temp", "set_volume",
     "play", "pause", "stop"}

\* the DeviceState fields other than is_online are as they were before the last call
StateKept ==
    \A f \in (DOMAIN DeviceState) \ {"is_online"} : dev._state[f] = last.pre._state[f]

\* C22: a control operation that returned False or raised left every DeviceState
\* field other than is_online as it was before the call
C22_FailedControlLeavesState ==
    (last.op \in ControlOps /\ last.ret # "True") => StateKept

\* what does hold: a failed control operation changed the state only after its
\* vendor command went through and the state-changed callback then raised
C22_OnlyRaisingCallbackBreaksFrame ==
    (last.op \in ControlOps /\ last.ret # "True" /\ ~StateKept) =>
        /\ last.calls = 1
        /\ last.notified # <<>>
        /\ Raises(last.notified[1])

\* C23: a transport or vendor-SDK error during connect or a control command makes
\* the call return False (nothing is raised) and leaves is_online false
C23_TransportErrorAbsorbed ==
    (last.op \in ControlOps \cup {"connect"} /\ last.errors > 0) =>
        /\ last.ret = "False"
        /\ ~dev._state.is_online

\* what does hold: such an error is never raised; a control command returns False
\* and leaves is_online as it was, a Tuya connect returns False with is_online
\* false, and a WiZ or Tapo connect returns True with is_online true
C23_ErrorNeverRaised ==
    (last.op \in ControlOps \cup {"connect"} /\ last.errors > 0) =>
        IF last.op \in ControlOps
        THEN last.ret = "False" /\ dev._state.is_online = last.pre._state.is_online
        ELSE IF last.pre.cls \in {"TuyaLightDevice", "TuyaDevice"}
             THEN last.ret = "False" /\ ~dev._state.is_online
             ELSE last.ret = "True" /\ dev._state.is_online

C24_WitnessBackOnline ==
    /\ last.op = "refresh_state"
    /\ last.args = <<"ok">>
    /\ last.calls = 1
    /\ ~last.pre._state.is_online
    /\ last.pre.handle

\* C25: connect() on a device that is connected (it holds a vendor session and is
\* online) returns True and keeps that session, creating no new one; a disconnect()
\* that follows a disconnect() returns normally and changes nothing
C25_ConnectKeepsSessionDisconnectRepeats ==
    [][/\ (last'.op = "connect" /\ dev.handle /\ dev._state.is_online) =>
              (last'.ret = "True" /\ last'.opened = 0 /\ dev'.handle)
       /\ (last.op = "disconnect" /\ last'.op = "disconnect") =>
              (last'.ret = "None" /\ dev' = dev)]_vars

\* what does hold: the same with the connected-connect part limited to the classes
\* other than TuyaLightDevice and TuyaDevice, whose connect() always creates a new
\* vendor device object and probes it
C25_HoldsExceptTuyaConnect ==
    [][/\ (/\ last'.op = "connect" /\ dev.handle /\ dev._state.is_online
           /\ dev.cls \notin {"TuyaLightDevice", "TuyaDevice"}) =>
              (last'.ret = "True" /\ last'.opened = 0 /\ dev'.handle)
       /\ (/\ last'.op = "connect" /\ dev.handle
           /\ dev.cls \in {"TuyaLightDevice", "TuyaDevice"}) =>
              last'.opened = 1
       /\ (last.op = "disconnect" /\ last'.op = "disconnect") =>
              (last'.ret = "None" /\ dev' = dev)]_vars

\* C26: the device has one state-changed callback slot.  A registration stores its
\* callback in the slot and notifies nobody, no other call changes the slot, and a
\* call that notifies invokes the callback that was in the slot, once, and no other
\* (so every notification goes to the most recently registered callback only)
C26_OnlyLatestCallbackNotified ==
    /\ last.op = "set_state_callback" =>
           (dev._on_state_changed = Some(last.args[1]) /\ last.notified = <<>>)
    /\ last.op \notin {"set_state_callback", "__init__"} =>
           dev._on_state_changed = last.pre._on_state_changed
    /\ last.notified # <<>> =>
           (/\ last.pre._on_state_changed # None
            /\ last.notified = <<last.pre._on_state_changed[1]>>)

\* a status pushed by the cast notified the registered callback
C26_Witness ==
    /\ last.op = "new_cast_status"
    /\ last.pre._on_state_changed = Some("cb_ok")
    /\ last.notified = <<"cb_ok">>

\* a registration replaced an earlier registered callback
C26_WitnessReplaced ==
    /\ last.op = "set_state_callback"
    /\ last.pre._on_state_changed = Some("cb_raise")
    /\ dev._on_state_changed = Some("cb_ok")

----------------------------------------------------------------------------
(* Claims about the application's handlers and the registry *)

RegisteredIds(dct) == {dct[i].key : i \in 1..Len(dct)}

\* C27: a device leaves the registry only in a step that completes a remove_device
\* for its id, called from the loss handler; a failed refresh or control, or going
\* offline, removes nothing: the device stays registered, unchanged but for
\* is_online
C27_OnlyLossNotificationRemoves ==
    [][/\ \A id \in RegisteredIds(_devices) \ RegisteredIds(_devices') :
              /\ app'.last = [op |-> "remove_device", thread |-> "mdns",
                              device_id |-> Some(id)]
              /\ app.inside["mdns"] = Some([op |-> "remove_device", device |-> None,
                                            device_id |-> id])
       /\ app'.last.op = "refresh_state" =>
              /\ RegisteredIds(_devices') = RegisteredIds(_devices)
              /\ \A id \in RegisteredIds(_devices) :
                     \E online \in BOOLEAN :
                         DictGet(_devices', id)[1] =
                             [DictGet(_devices, id)[1] EXCEPT !.is_online = online]
      ]_vars

\* a registered device went offline by a failed refresh, is still registered, and
\* the window shows it
C27_Witness ==
    /\ app.last.op = "refresh_state"
    /\ DictHas(_devices, app.last.device_id[1])
    /\ ~DictGet(_devices, app.last.device_id[1])[1].is_online
    /\ app.last.device_id[1] \in Shown(app)

\* a device left the registry through the loss handler
C27_WitnessLost ==
    /\ app.last.op = "remove_device"
    /\ <<"mdns", 1>> \in Shown(app)
    /\ ~DictHas(_devices, <<"mdns", 1>>)

\* C28: every registry write (add_device, remove_device) runs on the UI thread, and
\* no two threads are inside a registry write at once
C28_RegistryWritesOnUiThread ==
    /\ app.last.op \in {"add_device", "remove_device"} => app.last.thread = UiThread
    /\ Cardinality({t \in AppThreads : app.inside[t] # None}) <= 1

\* what does hold: the registry is written by the thread that delivered the
\* discovery, never by the UI thread; only the window update is posted to the UI
C28_RegistryWritesOnDiscoveryThreads ==
    /\ app.last.op \in {"add_device", "remove_device"} => app.last.thread \in AppThreads
    /\ \A k \in 1..Len(app.after) :
           app.after[k].fn \in {"_add_device_to_gui", "window.remove_device"}

----------------------------------------------------------------------------
(* Claims about the bridge's workers *)

\* the worker threads that have not left _run_loop
LiveWorkers == {n \in 1..Len(workers) : workers[n] \in {"run_forever", "stopping"}}

\* C29: at every moment at most one worker thread of the bridge is alive, whatever
\* start() and stop() calls were made, a start() after a timed-out join included
C29_AtMostOneLiveWorker == Cardinality(LiveWorkers) <= 1

\* what does hold: at most one live worker has not been asked to stop, and it is
\* the one the bridge refers to; any other live worker is one that a stop() whose
\* join timed out left behind
C29_AtMostOneWorkerNotStopping ==
    /\ Cardinality({n \in LiveWorkers : workers[n] = "run_forever"}) <= 1
    /\ \A n \in LiveWorkers :
           workers[n] = "run_forever" => (_running /\ _thread = Some(n))
    /\ \A n \in LiveWorkers : _thread # Some(n) => StopReturned(n)

----------------------------------------------------------------------------
(* Claims about the Chromecast's debounced volume *)

\* the quiet period is over: no timer is waiting or inside _send_volume
Quiet == \A k \in 1..Len(vol.timers) : vol.timers[k].state \in {"cancelled", "finished"}

\* no vendor call failed: every timer that got to the vendor call delivered
AllDelivered ==
    \A k \in 1..Len(vol.timers) :
        (vol.timers[k].state = "finished" /\ vol.timers[k].volume # None) =>
            \E i \in 1..Len(vol.sent) : vol.sent[i].timer = k

\* C30: after a burst of set_volume calls and the quiet period that follows, the
\* last level sent to the device is the level requested last, DeviceState.volume
\* is the level that was sent, and no request whose timer was cancelled was sent
C30_LatestVolumeSent ==
    (Quiet /\ AllDelivered /\ vol.requested # <<>>) =>
        /\ vol.sent # <<>>
        /\ vol.sent[Len(vol.sent)].level = vol.requested[Len(vol.requested)]
        /\ dev._state.volume = Some(vol.sent[Len(vol.sent)].level)
        /\ \A i \in 1..Len(vol.sent) : vol.timers[vol.sent[i].timer].state # "cancelled"

\* what does hold: a timer cancelled while it waited sends nothing, and when no
\* set_volume call fell between a timer's firing and the end of its _send_volume
\* (every timer but the last was cancelled), the claim's outcome is reached
C30_HoldsWhenNoTimerOverlaps ==
    /\ \A i \in 1..Len(vol.sent) : vol.timers[vol.sent[i].timer].state # "cancelled"
    /\ (/\ Quiet /\ AllDelivered /\ vol.requested # <<>>
        /\ \A k \in 1..(Len(vol.timers) - 1) : vol.timers[k].state = "cancelled") =>
           /\ vol.sent = <<[timer |-> Len(vol.timers),
                            level |-> vol.requested[Len(vol.requested)]]>>
           /\ dev._state.volume = Some(vol.requested[Len(vol.requested)])

----------------------------------------------------------------------------
(* Claims about the generic adapter and the window's device list *)

\* the vendors that have a manager, as active on this installation
ActiveVendors(a) ==
    {v \in {"chromecast"} : a._chromecast_manager} \cup {v \in {"tuya"} : a._tuya_manager}

\* the generic adapters the registry holds or the window is about to show or shows
AdaptersAdded ==
    {_devices[i].value : i \in {j \in 1..Len(_devices) : _devices[j].key[1] = "mdns"}}

C31_OnlyChromecastSuppressed ==
    /\ \A d \in AdaptersAdded : ~(d.hint = "chromecast" /\ app._chromecast_manager)
    /\ \A t \in AppThreads :
           (app.inside[t] # None /\ app.inside[t][1].op = "add_device"
            /\ app.inside[t][1].device_id[1] = "mdns") =>
               ~(app.inside[t][1].device[1].hint = "chromecast" /\ app._chromecast_manager)

\* the UI thread has run every posted callback and no handler is under way
Drained == app.after = <<>> /\ \A t \in AppThreads : app.inside[t] = None

\* C32: once the UI thread has drained its callbacks, an id has a card iff it is
\* registered, and the object behind each card is the object the registry stores
\* for the id, after any sequence of found and lost notifications, a second found
\* notification for a registered id included
C32_WindowAgreesWithRegistry ==
    Drained =>
        /\ Shown(app) = RegisteredIds(_devices)
        /\ \A c \in app.window : DictGet(_devices, c[1]) # None
                                 /\ DictGet(_devices, c[1])[1].inst = c[2]

\* what does hold: once drained, the ids with a card are the registered ids
C32_SameIdsOnceDrained == Drained => Shown(app) = RegisteredIds(_devices)

----------------------------------------------------------------------------
(* Claims about the bridge's completion callbacks *)

\* callback which of coroutine i was triggered: its body was executed, or a lambda
\* calling it was handed to gui_schedule
Triggered(i, which) ==
    \/ ops[i].body # None /\ ops[i].body[1].which = which
    \/ ops[i].also # None /\ ops[i].also[1].which = which
    \/ \E k \in 1..Len(gui_queue) : gui_queue[k] = [op |-> i, which |-> which]
    \/ ops[i].drained = (IF which = "callback" THEN "callback" ELSE "NameError")

\* handle_result has run for coroutine i
Completed(i) == ops[i].state = "done" /\ ops[i].handler = "ran"

\* the claim's statement for coroutine i
OneCallback(i) ==
    /\ ~(Triggered(i, "callback") /\ Triggered(i, "error_callback"))
    /\ Triggered(i, "callback") => ~ops[i].fails
    /\ Triggered(i, "error_callback") => ops[i].fails
    /\ Completed(i) =>
           /\ (~ops[i].fails /\ ops[i].callback) => Triggered(i, "callback")
           /\ (ops[i].fails /\ ops[i].error_callback) => Triggered(i, "error_callback")

\* C33: for every completed operation at most one completion callback is
\* triggered, the success callback iff the coroutine returned and the error
\* callback iff it raised; the error callback is never triggered for a coroutine
\* that succeeded, also when the success callback or gui_schedule raises
C33_AtMostOneCompletionCallback == \A i \in 1..Len(ops) : OneCallback(i)

\* what does hold: the statement for every operation whose success callback and
\* gui_schedule do not raise
C33_HoldsWhenNothingRaises ==
    \A i \in 1..Len(ops) : ops[i].raises = "none" => OneCallback(i)

----------------------------------------------------------------------------
(* Claims about subscribers that change the bus during publish *)

\* C34: a subscriber that calls unsubscribe or subscribe while publish is running
\* causes no callback to be skipped: every callback subscribed to the type when
\* publish started and still subscribed when it returns was invoked in that call
C34_NoSubscriberSkipped ==
    blast.op = "publish" =>
        \A cb \in Handlers :
            (/\ ListHas(SubscribersOf(blast.pre, blast.event_type), cb)
             /\ ListHas(SubscribersOf(_subscribers, blast.event_type), cb))
                => ListHas(blast.fired, cb)

\* what does hold: nothing is skipped by a publish during which no subscriber that
\* was invoked called unsubscribe
C34_HoldsWithoutUnsubscribe ==
    (blast.op = "publish" /\ \A i \in 1..Len(blast.fired) : ~Reentrant(blast.fired[i]))
        => blast.fired = SubscribersOf(blast.pre, blast.event_type)

----------------------------------------------------------------------------
(* Claims about callbacks that re-enter the registry *)

\* the removal notifications of an id among the invocations fired
RemovalsNotified(fired, device_id) ==
    {k \in 1..Len(fired) : fired[k].kind = "removed" /\ fired[k].device_id = Some(device_id)}

\* C35: when clear() returns the registry is empty, and every device registered
\* when it was called has had its removal notified exactly once to each "removed"
\* callback, also when such a callback calls add_device or remove_device
C35_ClearEmptiesAndNotifiesOnce ==
    rlast.op = "clear" =>
        /\ DeviceRegistry_device_count(Registry) = 0
        /\ \A i \in 1..Len(rlast.pre._devices) :
               Cardinality(RemovalsNotified(rlast.fired, rlast.pre._devices[i].key))
                   = Len(_on_device_removed)

\* what does hold: the same when no "removed" callback adds a device during the
\* clear, a callback that removes other devices included
C35_HoldsUnlessCallbackAdds ==
    (rlast.op = "clear" /\ ~ListHas(_on_device_removed, "cb_readd")) =>
        /\ DeviceRegistry_device_count(Registry) = 0
        /\ \A i \in 1..Len(rlast.pre._devices) :
               Cardinality(RemovalsNotified(rlast.fired, rlast.pre._devices[i].key))
                   = Len(_on_device_removed)

\* the id an invocation is about
AboutId(inv) == IF inv.kind = "added" THEN inv.device[1].device_id ELSE inv.device_id[1]

\* registry contents dct are the state after the operation that inv reports
PostState(dct, inv) ==
    IF inv.kind = "added" THEN DictGet(dct, AboutId(inv)) = inv.device
    ELSE ~DictHas(dct, AboutId(inv))

\* C36 as stated: while any "added" callback for device d runs, get_device of its
\* id returns d, and while any "removed" callback for an id runs the id is not in
\* the registry: every callback sees the post-operation state
C36_EveryCallbackSeesPostState ==
    \A k \in 1..Len(rlast.fired) : PostState(rlast.fired[k].seen, rlast.fired[k])

\* C36 as amended: the callbacks of a notification start to run when the mutation
\* they report is done, and a callback sees the post-operation state unless a
\* callback invoked before it in the same notification removed or re-added the id
C36_NotifiedAfterMutation ==
    \A k \in 1..Len(rlast.fired) :
        LET inv == rlast.fired[k]
        IN  /\ PostState(inv.entered, inv)
            /\ DictGet(inv.seen, AboutId(inv)) = DictGet(inv.entered, AboutId(inv))
                   => PostState(inv.seen, inv)

\* two "added" callbacks ran for a device and both found it registered, with
\* another device registered before it
C36_Witness ==
    /\ rlast.op = "add_device"
    /\ Len(rlast.fired) = 2
    /\ \A k \in 1..2 : /\ rlast.fired[k].kind = "added"
                       /\ Len(rlast.fired[k].seen) = 2
                       /\ PostState(rlast.fired[k].seen, rlast.fired[k])

\* a "removed" callback ran for an id that a callback before it had added again
C36_WitnessReentered ==
    \E k \in 1..Len(rlast.fired) :
        /\ rlast.fired[k].kind = "removed"
        /\ DictHas(rlast.fired[k].seen, AboutId(rlast.fired[k]))
        /\ ~DictHas(rlast.fired[k].entered, AboutId(rlast.fired[k]))

\* the notifications about one id, in the order they were delivered
NotifiedAbout(device_id) ==
    SelectSeq(svc.discovery.notified, LAMBDA n : n.device_id = device_id)

DiscoveryIds ==
    {DiscoveryId("mdns", n) : n \in ServiceNames}
        \cup {DiscoveryId("manual", i) : i \in ManualIds}

\* found, lost, found, ... : the k-th notification about an id is a found one
\* exactly when k is odd
Alternates(notes) ==
    \A k \in 1..Len(notes) : notes[k].kind = IF k % 2 = 1 THEN "found" ELSE "lost"

\* C37: for every device id the found and lost notifications of the
\* DiscoveryService strictly alternate starting with found, a found notification
\* is delivered only for an id that is not in the discovered set and a lost
\* notification only for one that is, across mDNS add/update/remove events,
\* stop/start cycles, add_manual_device and clear() calls.
C37_FoundLostAlternate ==
    /\ \A device_id \in DiscoveryIds : Alternates(NotifiedAbout(device_id))
    /\ \A k \in 1..Len(svc.discovery.notified) :
           svc.discovery.notified[k].known = (svc.discovery.notified[k].kind = "lost")

\* C37, what does hold: with mDNS events and stop/start cycles alone, that is
\* as long as neither add_manual_device nor clear() has been called, the
\* notifications alternate
C37_AlternateForMdnsEvents ==
    (svc.called \cap {"add_manual_device", "clear"} = {}) => C37_FoundLostAlternate

\* a start() call has just returned
StartReturned == svc.last.op = "start"

\* C40: a manager or the discovery service is marked running only after a
\* start() that succeeded: when start() returns false the component is left not
\* running, a component is never running without a successful attempt since its
\* last stop (so a later start() makes the attempt again), and start() on a
\* running component returns true without making a second attempt.
C40_RunningOnlyAfterSuccessfulStart ==
    /\ \A who \in {"wiz", "tapo", "chromecast", "discovery"} :
           svc[who]._running => svc.succeeded[who]
    /\ StartReturned =>
           /\ ~svc.last.ret => ~svc[svc.last.who]._running
           /\ svc.last.was_running => svc.last.ret /\ ~svc.last.attempted

\* C40, what does hold: the Chromecast manager and the discovery service are
\* running only after a successful start, and start() of any running component
\* returns true without a second attempt
C40_HoldsForChromecastAndDiscovery ==
    /\ \A who \in {"chromecast", "discovery"} : svc[who]._running => svc.succeeded[who]
    /\ StartReturned =>
           /\ (svc.last.who \in {"chromecast", "discovery"} /\ ~svc.last.ret)
                  => ~svc[svc.last.who]._running
           /\ svc.last.was_running => svc.last.ret /\ ~svc.last.attempted

\* C40: a WiZ or Tapo start() that returned false after its attempt raised leaves
\* the manager marked running, and the next start() returns true without an attempt
C40_FailedStartLeavesRunning ==
    /\ StartReturned /\ svc.last.who \in {"wiz", "tapo"}
    /\ svc.last.was_running /\ svc.last.ret /\ ~svc.last.attempted
    /\ ~svc.succeeded[svc.last.who]

\* run_async returned a handle for coroutine i
Accepted(i) == i <= Len(ops) /\ ops[i].api = "run_async" /\ ops[i].ret = "Future"

\* the callback that matches the outcome of a coroutine
Matching(op) == IF op.fails THEN "error_callback" ELSE "callback"

\* coroutine i has finished and, if the matching callback was supplied, it was
\* invoked once
Settled(i) ==
    /\ Accepted(i)
    /\ ops[i].state = "done"
    /\ ops[i][Matching(ops[i])] =>
           /\ ops[i].handler = "ran"
           /\ ops[i].invoked = 1
           /\ ops[i].body # None /\ ops[i].body[1].which = Matching(ops[i])

\* stop() was called on the loop of coroutine i
StopCalled(i) == Accepted(i) /\ workers[ops[i].loop[1]] # "run_forever"

\* C38: under fair scheduling of the worker, every coroutine for which run_async
\* returned a handle eventually finishes and, if the matching callback was
\* supplied, that callback is invoked exactly once, unless stop() is called
\* before the coroutine finishes; no coroutine finishes twice or has its
\* callback invoked twice.
C38_AcceptedCoroutineCompletes ==
    /\ \A i \in 1..MaxOps : Accepted(i) ~> (Settled(i) \/ StopCalled(i))
    /\ [][\A i \in 1..Len(ops) :
              /\ ops[i].invoked <= ops'[i].invoked /\ ops'[i].invoked <= 1
              /\ ops[i].state = "done" => ops'[i].state = "done"]_vars

\* C38 happens: a coroutine accepted by run_async with a callback has finished on
\* a loop that was not asked to stop, and its matching callback was invoked once
C38_Witness ==
    \E i \in 1..Len(ops) :
        /\ Accepted(i) /\ Settled(i) /\ ~StopCalled(i)
        /\ ops[i][Matching(ops[i])] /\ ops[i].invoked = 1

\* _cleanup() has returned
CleanupReturned == svc.cleanup /\ pc = "idle"

\* the stop() coroutine of a component was accepted by the bridge
StopSubmitted(who) == svc.stopping[who] > 0 /\ ops[svc.stopping[who]].ret = "Future"

\* C39: every shutdown coroutine submitted to the bridge during cleanup (the
\* stop() of the WiZ, Tapo and Tuya managers and of the discovery service) has run
\* to completion when cleanup returns, so every one of these components is then
\* in its stopped state.
C39_ShutdownCompletesBeforeLoopStops ==
    CleanupReturned =>
        \A k \in 1..Len(Shutdown) :
            /\ StopSubmitted(Shutdown[k]) => ops[svc.stopping[Shutdown[k]]].state = "done"
            /\ ~svc[Shutdown[k]]._running

\* C39, what does hold: cleanup hands one stop() coroutine per component to a
\* running bridge, and a component whose coroutine the worker ran is stopped
C39_StoppedWhenCoroutineRan ==
    svc.cleanup =>
        \A k \in 1..Len(Shutdown) :
            /\ is_running(klast.pre) => StopSubmitted(Shutdown[k])
            /\ (StopSubmitted(Shutdown[k]) /\ ops[svc.stopping[Shutdown[k]]].state = "done")
                   => ~svc[Shutdown[k]]._running

\* C39: cleanup has returned, the loop is closed, and the stop() coroutine of a
\* running component was never run
C39_StopNeverRan ==
    /\ CleanupReturned
    /\ \E k \in 1..Len(Shutdown) :
           /\ StopSubmitted(Shutdown[k])
           /\ ops[svc.stopping[Shutdown[k]]].state = "pending"
           /\ workers[ops[svc.stopping[Shutdown[k]]].loop[1]] = "closed"
           /\ svc[Shutdown[k]]._running

====
